---- MODULE Spec2Model ----
(***************************************************************************)
(* Verification model of ppdmod: the likelihood engine                     *)
(* (libs/fitting_utils.py), the FITS readout layer (libs/readout.py), the  *)
(* radiative profiles and the initial guess (libs/utils.py), the image     *)
(* grid (functionality/model_base.py) and the composite model (model.py).  *)
(*                                                                         *)
(* Numbers.  The code computes with floats; the model computes exactly:    *)
(*  - fluxes, errors, parameters and wavelengths are integers;             *)
(*  - the last entry of theta, lnf, and the two bounds of its prior are    *)
(*    stored as exp(lnf): exp is increasing, so every comparison of        *)
(*    lnprior is preserved, and exp(2*lnf) is the square of the stored     *)
(*    number;                                                              *)
(*  - a likelihood value is -0.5*(num/den + ln(prod p^lg[p])): a reduced   *)
(*    fraction and the prime factorisation of the argument of the          *)
(*    logarithm.  ln of a rational other than 1 is irrational, so two      *)
(*    values are equal as reals iff their representations are equal;       *)
(*  - window widths are halved by comparing doubled quantities.            *)
(***************************************************************************)
EXTENDS Integers, Sequences, FiniteSets, Bags

VARIABLES data, call, wk, readout, args, out

vars == <<data, call, wk, readout, args, out>>

(***************************************************************************)
(* Bounds of the model                                                     *)
(***************************************************************************)
NWl == 2          \* wavelengths in data.wavelengths (rows of the data arrays)
NReadouts == 1    \* readouts merged in the data: 6 correlated fluxes each
NCph == 2         \* closure phases of a readout
MaxObs == 2       \* observed values are 0..MaxObs
MaxErr == 2       \* observation errors are 1..MaxErr
MaxTheta == 5     \* the model parameter of theta is 0..MaxTheta
MaxLnf == 5       \* exp(lnf) is 1..MaxLnf
NWorkers == 2     \* concurrent likelihood evaluations

(***************************************************************************)
(* Exact arithmetic of the likelihood values                               *)
(***************************************************************************)
RECURSIVE Gcd(_, _)
Gcd(a, b) == IF b = 0 THEN a ELSE Gcd(b, a % b)

Abs(x) == IF x < 0 THEN -x ELSE x

RECURSIVE LeastDivisor(_, _)
LeastDivisor(n, d) ==
    IF d * d > n THEN n
    ELSE IF n % d = 0 THEN d ELSE LeastDivisor(n, d + 1)

RECURSIVE PrimeBag(_)
PrimeBag(n) ==
    IF n <= 1 THEN EmptyBag
    ELSE LET p == LeastDivisor(n, 2)
         IN  SetToBag({p}) (+) PrimeBag(n \div p)

ScaleBag(k, b) == [p \in DOMAIN b |-> k * b[p]]

\* -0.5 * (n/d + count * ln(arg)), reduced
MkVal(n, d, count, arg) ==
    LET g == Gcd(Abs(n), d)
    IN  [inf |-> FALSE, num |-> n \div g, den |-> d \div g,
         lg |-> IF count = 0 THEN EmptyBag ELSE ScaleBag(count, PrimeBag(arg))]

Zero == [inf |-> FALSE, num |-> 0, den |-> 1, lg |-> EmptyBag]

NegInf == [inf |-> TRUE, num |-> 0, den |-> 1, lg |-> EmptyBag]

isfinite(v) == ~v.inf

Add(a, b) ==
    IF a.inf \/ b.inf THEN NegInf
    ELSE LET n == a.num * b.den + b.num * a.den
             d == a.den * b.den
             g == Gcd(Abs(n), d)
         IN  [inf |-> FALSE, num |-> n \div g, den |-> d \div g,
              lg |-> a.lg (+) b.lg]

RECURSIVE SumSeq(_)
SumSeq(s) == IF s = <<>> THEN 0 ELSE Head(s) + SumSeq(Tail(s))

Exp2(lnf) == lnf * lnf

(***************************************************************************)
(* fitting_utils.py                                                        *)
(***************************************************************************)
\* DataHandler.reformat_theta_to_components: its result is not returned to
\* calculate_model but left in the data object, where calculate_model reads
\* it back as data.model_components.
reformat_theta_to_components(d, theta) ==
    [d EXCEPT !.model_components = theta]

\* CombinedModel + add_component: the model holds the components it was given
CombinedModel(components) == components

\* CombinedModel.eval_flux(wavelength): the image of the model, one pixel
\* per component
eval_flux(model, wavelength) == model

\* CombinedModel.eval_total_flux(wavelength): the sum of the fluxes of the
\* components
eval_total_flux(model, wavelength) == SumSeq(model)

\* FastFourierTransform(image, wavelength, pixel_size, zero_padding_order)
FastFourierTransform(image, wavelength, pixel_size, zero_padding_order) ==
    [image |-> image, wavelength |-> wavelength, pixel_size |-> pixel_size,
     zero_padding_order |-> zero_padding_order]

\* FastFourierTransform.get_uv2fft2(uv_coords, uv_coords_cphase): one
\* correlated flux per uv coordinate and one closure phase per triangle
get_uv2fft2(self, uv_coords, uv_coords_cphase) ==
    LET flux == SumSeq(self.image) - (self.wavelength - 1)
    IN  [corr |-> [b \in 1..Len(uv_coords) |->
                      IF flux - uv_coords[b] < 0 THEN 0
                      ELSE flux - uv_coords[b]],
         cph  |-> [t \in 1..Len(uv_coords_cphase) |->
                      (flux + uv_coords_cphase[t]) % 2]]

\* array.shape of an array of rows
np_shape(array) == <<Len(array), Len(array[1])>>

\* loop_model(model, data, wavelength, rfourier): the total flux repeated
\* once per group of 6 correlated fluxes of a row of data.corr_fluxes, the
\* correlated fluxes, the closure phases and, with rfourier, the transform
loop_model(model, d, wavelength, rfourier) ==
    LET image == eval_flux(model, wavelength)
        total_flux == eval_total_flux(model, wavelength)
        total_flux_arr ==
            [k \in 1..(np_shape(d.corr_fluxes)[2] \div 6) |-> total_flux]
        fourier == FastFourierTransform(image, wavelength, d.pixel_size,
                                        d.zero_padding_order)
        uv2fft2 == get_uv2fft2(fourier, d.uv_coords, d.uv_coords_cphase)
    IN  IF rfourier
        THEN [total |-> total_flux_arr, corr |-> uv2fft2.corr,
              cph |-> uv2fft2.cph, fourier |-> fourier]
        ELSE [total |-> total_flux_arr, corr |-> uv2fft2.corr,
              cph |-> uv2fft2.cph]

\* tqdm(iterable, desc): yields the items of the iterable, in their order
tqdm(iterable) == [i \in 1..Len(iterable) |-> iterable[i]]

\* the three lists and the variable model_data before the first pass of
\* the loop: model_data is not bound yet
NoModelData == [total |-> <<>>, corr |-> <<>>, cph |-> <<>>,
                model_data |-> <<>>]

\* calculate_model, lines 44-48: the loop of the debug branch over
\* tqdm(data.wavelengths), one append to each list per wavelength; the
\* wavelength itself is passed to loop_model
RECURSIVE debug_loop(_, _, _, _)
debug_loop(model, d, wavelengths, rfourier) ==
    IF wavelengths = <<>>
    THEN NoModelData
    ELSE LET rest == debug_loop(
                        model, d,
                        SubSeq(wavelengths, 1, Len(wavelengths) - 1), rfourier)
             model_data == loop_model(model, d, wavelengths[Len(wavelengths)],
                                      rfourier)
         IN  [total |-> Append(rest.total, model_data.total),
              corr  |-> Append(rest.corr, model_data.corr),
              cph   |-> Append(rest.cph, model_data.cph),
              model_data |-> <<model_data>>]

\* calculate_model, lines 50-54: the loop of the other branch over
\* data.wavelengths
RECURSIVE plain_loop(_, _, _, _)
plain_loop(model, d, wavelengths, rfourier) ==
    IF wavelengths = <<>>
    THEN NoModelData
    ELSE LET rest == plain_loop(
                        model, d,
                        SubSeq(wavelengths, 1, Len(wavelengths) - 1), rfourier)
             model_data == loop_model(model, d, wavelengths[Len(wavelengths)],
                                      rfourier)
         IN  [total |-> Append(rest.total, model_data.total),
              corr  |-> Append(rest.corr, model_data.corr),
              cph   |-> Append(rest.cph, model_data.cph),
              model_data |-> <<model_data>>]

\* The data object as calculate_model leaves it
calculate_model_data(theta, d) == reformat_theta_to_components(d, theta)

\* What calculate_model(theta, data, rfourier, debug) returns: the three
\* lists, one entry per wavelength, and with rfourier the last item of the
\* model_data of the last pass, its transform; with rfourier and no
\* wavelength model_data was never bound and line 57 raises
calculate_model(theta, d, rfourier, debug) ==
    LET d1    == reformat_theta_to_components(d, theta)
        model == CombinedModel(d1.model_components)
        lists == IF debug
                 THEN debug_loop(model, d1, tqdm(d1.wavelengths), rfourier)
                 ELSE plain_loop(model, d1, d1.wavelengths, rfourier)
    IN  IF rfourier
        THEN IF lists.model_data = <<>>
             THEN [raised |-> TRUE, total |-> <<>>, corr |-> <<>>,
                   cph |-> <<>>, fourier |-> <<>>]
             ELSE [raised |-> FALSE, total |-> lists.total,
                   corr |-> lists.corr, cph |-> lists.cph,
                   fourier |-> <<lists.model_data[1].fourier>>]
        ELSE [raised |-> FALSE, total |-> lists.total, corr |-> lists.corr,
              cph |-> lists.cph]

\* the items of an array of rows, row after row
RECURSIVE ravel(_)
ravel(array) == IF array = <<>> THEN <<>> ELSE Head(array) \o ravel(Tail(array))

\* numpy broadcasting of the rows of `array` against rows of `columns`
\* items: a row of one item is repeated
broadcast_to(array, columns) ==
    [r \in 1..Len(array) |->
        IF Len(array[r]) = columns THEN array[r]
        ELSE [c \in 1..columns |-> array[r][1]]]

\* the number of columns two arrays of rows are broadcast to
broadcast_columns(a, b) ==
    IF np_shape(a)[2] = 1 THEN np_shape(b)[2] ELSE np_shape(a)[2]

chi_sq(real_data, data_error, data_model, lnf) ==
    LET columns == broadcast_columns(real_data, data_model)
        real  == ravel(broadcast_to(real_data, columns))
        error == ravel(broadcast_to(data_error, columns))
        model == ravel(broadcast_to(data_model, columns))
        N == Len(model)
        sigma_squared ==
            SumSeq([i \in 1..N |-> error[i] * error[i]
                        + model[i] * model[i] * Exp2(lnf)])
        residuals ==
            SumSeq([i \in 1..N |-> (real[i] - model[i]) * (real[i] - model[i])])
    IN  IF N = 0 THEN Zero ELSE MkVal(residuals, sigma_squared, N, sigma_squared)

\* lnlike with the total-flux term computed whatever data.fit_total_flux is
lnlike_terms_always_total(theta, d, mod) ==
    LET lnf == theta[Len(theta)]
    IN  [tf |-> chi_sq(d.total_fluxes, d.total_fluxes_error, mod.total, lnf),
         cf |-> chi_sq(d.corr_fluxes, d.corr_fluxes_error, mod.corr, lnf),
         cp |-> IF d.fit_cphases
                THEN chi_sq(d.cphases, d.cphases_error, mod.cph, lnf)
                ELSE Zero]

\* The three chi-square terms of lnlike, given the model arrays
lnlike_terms(theta, d, mod) ==
    LET lnf == theta[Len(theta)]
    IN  [tf |-> IF d.fit_total_flux
                THEN chi_sq(d.total_fluxes, d.total_fluxes_error, mod.total, lnf)
                ELSE Zero,
         cf |-> chi_sq(d.corr_fluxes, d.corr_fluxes_error, mod.corr, lnf),
         cp |-> IF d.fit_cphases
                THEN chi_sq(d.cphases, d.cphases_error, mod.cph, lnf)
                ELSE Zero]

lnlike(theta, d) ==
    LET mod == calculate_model(SubSeq(theta, 1, Len(theta) - 1), d, FALSE, FALSE)
        t   == lnlike_terms(theta, d, mod)
    IN  Add(Add(t.tf, t.cf), t.cp)

\* lnprior checking the lower bounds only
lnprior_lower_only(theta, priors) ==
    IF \E i \in 1..Len(priors) : ~(priors[i][1] < theta[i])
    THEN NegInf
    ELSE Zero

\* lnprior checking the upper bounds only
lnprior_upper_only(theta, priors) ==
    IF \E i \in 1..Len(priors) : ~(theta[i] < priors[i][2])
    THEN NegInf
    ELSE Zero

lnprior(theta, priors) ==
    IF \E i \in 1..Len(priors) :
          ~(priors[i][1] < theta[i] /\ theta[i] < priors[i][2])
    THEN NegInf
    ELSE Zero

lnprob(theta, d) ==
    IF isfinite(lnprior(theta, d.priors)) THEN lnlike(theta, d) ELSE NegInf

(***************************************************************************)
(* The observation bundle (DataHandler) and the parameter vectors          *)
(***************************************************************************)
\* one prior [lower, upper] per entry of theta; the last one is that of lnf
Priors == <<<<1, 4>>, <<2, 4>>>>

Thetas == { <<p, f>> : p \in 0..MaxTheta, f \in 1..MaxLnf }

\* the observed array of n columns with the values 0..MaxObs in rotation
\* along the wavelengths (rows) and the measurements of a wavelength
\* (columns), from x
ObsArray(n, x) ==
    [w \in 1..NWl |-> [b \in 1..n |-> (x + w + b) % (MaxObs + 1)]]

ObsArrays(n) == { ObsArray(n, x) : x \in 0..MaxObs }

\* the error array of n columns with the values 1..MaxErr in rotation
ErrArray(n, x) ==
    [w \in 1..NWl |-> [b \in 1..n |-> 1 + ((x + w + b) % MaxErr)]]

ErrArrays(n) == { ErrArray(n, x) : x \in 1..MaxErr }

\* the observed array of n columns with the value x everywhere
FlatArray(n, x) == [w \in 1..NWl |-> [b \in 1..n |-> x]]

\* observed arrays of n columns with the same value everywhere
FlatObs(n) == { FlatArray(n, x) : x \in 0..MaxObs }

UnitErr(n) == [w \in 1..NWl |-> [b \in 1..n |-> 1]]

\* a data object: one row per wavelength in every array; one uv coordinate
\* per column of the correlated fluxes and one triangle per column of the
\* closure phases
Bundle(tf, tfe, cf, cfe, cp, cpe, ftf, fcp) ==
    [priors |-> Priors,
     wavelengths |-> [w \in 1..NWl |-> w],
     fit_total_flux |-> ftf, fit_cphases |-> fcp,
     total_fluxes |-> tf, total_fluxes_error |-> tfe,
     corr_fluxes |-> cf, corr_fluxes_error |-> cfe,
     cphases |-> cp, cphases_error |-> cpe,
     uv_coords |-> [b \in 1..Len(cf[1]) |-> b % 2],
     uv_coords_cphase |-> [t \in 1..Len(cp[1]) |-> t % 2],
     pixel_size |-> 1, zero_padding_order |-> 1,
     model_components |-> <<>>]

\* the data object of the runs that make no likelihood call
NoData ==
    Bundle(UnitErr(NReadouts), UnitErr(NReadouts),
           UnitErr(6 * NReadouts), UnitErr(6 * NReadouts),
           UnitErr(NCph * NReadouts), UnitErr(NCph * NReadouts), FALSE, FALSE)

\* the bundles a sequential run starts from: NReadouts readouts of 6
\* correlated fluxes, NCph closure phases and one total flux each; the
\* total fluxes and the closure phases are observed at the same value x,
\* the correlated fluxes and their errors rotate from the same value y
Bundles ==
    { Bundle(FlatArray(NReadouts, x), UnitErr(NReadouts),
             ObsArray(6 * NReadouts, y), ErrArray(6 * NReadouts, y),
             FlatArray(NCph * NReadouts, x), UnitErr(NCph * NReadouts),
             ftf, fcp) :
        x \in 0..MaxObs, y \in 0..MaxObs,
        ftf \in BOOLEAN, fcp \in BOOLEAN }

\* the bundles a concurrent run starts from: every total flux and every
\* correlated flux observed at the same value
ConcBundles ==
    { [NoData EXCEPT !.total_fluxes = FlatArray(NReadouts, x),
                     !.corr_fluxes = FlatArray(6 * NReadouts, x),
                     !.fit_total_flux = ftf, !.fit_cphases = fcp] :
        x \in 0..MaxObs, ftf \in BOOLEAN, fcp \in BOOLEAN }

\* the parameter vectors proposed to concurrent evaluations
ConcThetas == { <<p, 3>> : p \in 0..MaxTheta }

NoCall == [op |-> "none", theta |-> <<>>, evaluated |-> FALSE, ret |-> Zero,
           terms |-> [tf |-> Zero, cf |-> Zero, cp |-> Zero],
           mod |-> [total |-> <<>>, corr |-> <<>>, cph |-> <<>>]]

Idle == [pc |-> "idle", theta |-> <<>>, model |-> <<>>, ret |-> Zero]
NoWorkers == [w \in 1..NWorkers |-> Idle]

NoReadout == [wavelength_solution |-> <<>>, u1coord |-> <<>>, v1coord |-> <<>>,
              u2coord |-> <<>>, v2coord |-> <<>>]

NoArgs == [op |-> "none", wavelengths |-> <<>>, sizes |-> <<>>]

NoOut == [op |-> "none", raised |-> FALSE, indices |-> <<>>, u |-> <<>>, v |-> <<>>,
          uv |-> <<>>]

(***************************************************************************)
(* Sequential evaluation: one call of lnprob at a time                     *)
(***************************************************************************)
InitLik ==
    /\ data \in Bundles
    /\ call = NoCall
    /\ wk = NoWorkers
    /\ readout = NoReadout
    /\ args = NoArgs
    /\ out = NoOut

\* lnprob(theta, data) with theta accepted by lnprior: lnlike is run
LnprobAccepted(theta) ==
    /\ isfinite(lnprior(theta, data.priors))
    /\ LET th  == SubSeq(theta, 1, Len(theta) - 1)
           mod == calculate_model(th, data, FALSE, FALSE)
       IN  /\ data' = calculate_model_data(th, data)
           /\ call' = [op |-> "lnprob", theta |-> theta, evaluated |-> TRUE,
                       ret |-> lnprob(theta, data),
                       terms |-> lnlike_terms(theta, data, mod),
                       mod |-> [total |-> mod.total, corr |-> mod.corr,
                                cph |-> mod.cph]]
    /\ UNCHANGED <<wk, readout, args, out>>

\* lnprob(theta, data) with theta rejected by lnprior
LnprobRejected(theta) ==
    /\ ~isfinite(lnprior(theta, data.priors))
    /\ call' = [NoCall EXCEPT !.op = "lnprob", !.theta = theta,
                              !.ret = lnprob(theta, data)]
    /\ UNCHANGED <<data, wk, readout, args, out>>

NextLik ==
    \/ \E theta \in Thetas : LnprobAccepted(theta)
    \/ \E theta \in Thetas : LnprobRejected(theta)

SpecLik == InitLik /\ [][NextLik]_vars

(***************************************************************************)
(* Concurrent evaluation: NWorkers threads call lnprob on the same data    *)
(* object, each with its own theta; a step is one access to that object    *)
(***************************************************************************)
InitConc ==
    /\ data \in ConcBundles
    /\ call = NoCall
    /\ wk = NoWorkers
    /\ readout = NoReadout
    /\ args = NoArgs
    /\ out = NoOut

\* lnprob: the prior check (fitting_utils.py:144)
WStart(w, theta) ==
    /\ wk[w].pc = "idle"
    /\ wk' = [wk EXCEPT ![w] =
                IF isfinite(lnprior(theta, data.priors))
                THEN [Idle EXCEPT !.pc = "reformat", !.theta = theta]
                ELSE [Idle EXCEPT !.pc = "done", !.theta = theta,
                                  !.ret = NegInf]]
    /\ UNCHANGED <<data, call, readout, args, out>>

\* calculate_model: data.reformat_theta_to_components(theta) (line 33)
WReformat(w) ==
    /\ wk[w].pc = "reformat"
    /\ data' = reformat_theta_to_components(
                    data, SubSeq(wk[w].theta, 1, Len(wk[w].theta) - 1))
    /\ wk' = [wk EXCEPT ![w].pc = "build"]
    /\ UNCHANGED <<call, readout, args, out>>

\* calculate_model: the model is built from data.model_components (34-39)
WBuild(w) ==
    /\ wk[w].pc = "build"
    /\ wk' = [wk EXCEPT ![w].pc = "score",
                        ![w].model = CombinedModel(data.model_components)]
    /\ UNCHANGED <<data, call, readout, args, out>>

\* calculate_model's loop over the wavelengths and lnlike's sum (41-100)
WScore(w) ==
    /\ wk[w].pc = "score"
    /\ LET t == lnlike_terms(wk[w].theta, data,
                             plain_loop(wk[w].model, data, data.wavelengths,
                                        FALSE))
       IN  wk' = [wk EXCEPT ![w].pc = "done",
                            ![w].ret = Add(Add(t.tf, t.cf), t.cp)]
    /\ UNCHANGED <<data, call, readout, args, out>>

NextConc ==
    \/ \E w \in 1..NWorkers, theta \in ConcThetas : WStart(w, theta)
    \/ \E w \in 1..NWorkers : WReformat(w)
    \/ \E w \in 1..NWorkers : WBuild(w)
    \/ \E w \in 1..NWorkers : WScore(w)

SpecConc == InitConc /\ [][NextConc]_vars

(***************************************************************************)
(* readout.py: ReadoutFits                                                 *)
(***************************************************************************)
NSol == 3         \* length of the wavelength solution
MaxWl == 4        \* wavelengths are 1..MaxWl
MaxTargets == 2   \* at most this many target wavelengths in a call
MaxSizes == 2     \* at most this many window sizes in a call
MaxWidth == 3     \* window sizes are 0..MaxWidth
NTri == 1         \* closure-phase triangles in the file
MaxUV == 1        \* triangle coordinates are within -MaxUV..MaxUV

\* numpy broadcasting of two one-dimensional arrays: the common length, or
\* 0 when the shapes do not broadcast (numpy raises ValueError)
BroadcastLen(n, m) ==
    IF n = m THEN n
    ELSE IF m = 1 THEN n
    ELSE IF n = 1 THEN m
    ELSE 0

At(a, k) == IF Len(a) = 1 THEN a[1] ELSE a[k]

\* the window with both ends included
window_closed(solution, bot2, top2) ==
    LET hit(i) == 2 * solution[i + 1] >= bot2 /\ 2 * solution[i + 1] <= top2
    IN  SelectSeq([i \in 1..Len(solution) |-> i - 1], hit)

\* the window with its lower end included
window_lower_closed(solution, bot2, top2) ==
    LET hit(i) == 2 * solution[i + 1] >= bot2 /\ 2 * solution[i + 1] < top2
    IN  SelectSeq([i \in 1..Len(solution) |-> i - 1], hit)

\* np.where(np.logical_and(solution > bot, solution < top))[0].tolist(),
\* bot2 and top2 being twice the window ends; indices count from 0
window(solution, bot2, top2) ==
    LET hit(i) == 2 * solution[i + 1] > bot2 /\ 2 * solution[i + 1] < top2
    IN  SelectSeq([i \in 1..Len(solution) |-> i - 1], hit)

\* get_wavelength_indices pairing targets and sizes without broadcasting
get_wavelength_indices_zip(r, wavelengths, wavelength_window_sizes) ==
    LET n == IF Len(wavelengths) < Len(wavelength_window_sizes)
             THEN Len(wavelengths) ELSE Len(wavelength_window_sizes)
    IN  [raised |-> FALSE,
         indices |->
            [k \in 1..n |->
                window(r.wavelength_solution,
                       2 * wavelengths[k] - wavelength_window_sizes[k],
                       2 * wavelengths[k] + wavelength_window_sizes[k])]]

\* ReadoutFits.get_wavelength_indices; <<>> with raised = TRUE on ValueError
get_wavelength_indices(r, wavelengths, wavelength_window_sizes) ==
    LET n == BroadcastLen(Len(wavelengths), Len(wavelength_window_sizes))
    IN  [raised |-> n = 0,
         indices |->
            [k \in 1..n |->
                window(r.wavelength_solution,
                       2 * At(wavelengths, k) - At(wavelength_window_sizes, k),
                       2 * At(wavelengths, k) + At(wavelength_window_sizes, k))]]

\* the third leg with the negated convention
get_closures_phase_uvcoords_split_negated(r) ==
    LET u3 == [t \in 1..Len(r.u1coord) |-> -(r.u1coord[t] + r.u2coord[t])]
        v3 == [t \in 1..Len(r.v1coord) |-> -(r.v1coord[t] + r.v2coord[t])]
    IN  [u |-> <<r.u1coord, r.u2coord, u3>>,
         v |-> <<r.v1coord, r.v2coord, v3>>]

get_closures_phase_uvcoords_split(r) ==
    LET u3 == [t \in 1..Len(r.u1coord) |-> r.u1coord[t] + r.u2coord[t]]
        v3 == [t \in 1..Len(r.v1coord) |-> r.v1coord[t] + r.v2coord[t]]
    IN  [u |-> <<r.u1coord, r.u2coord, u3>>,
         v |-> <<r.v1coord, r.v2coord, v3>>]

get_closures_phase_uvcoords(r) ==
    LET s == get_closures_phase_uvcoords_split(r)
    IN  [leg \in 1..3 |->
            [t \in 1..Len(s.u[leg]) |-> <<s.u[leg][t], s.v[leg][t]>>]]

\* the wavelength solution of an instrument increases along the detector
Solutions ==
    { s \in [1..NSol -> 1..MaxWl] : \A i \in 1..(NSol - 1) : s[i] < s[i + 1] }

Coords == [1..NTri -> -MaxUV..MaxUV]

Neg(c) == [t \in 1..Len(c) |-> -c[t]]

File(s, u1, v1, u2, v2) ==
    [wavelength_solution |-> s, u1coord |-> u1, v1coord |-> v1,
     u2coord |-> u2, v2coord |-> v2]

SeqsUpTo(n, S) == UNION { [1..k -> S] : k \in 1..n }

\* the calls of get_wavelength_indices made on a ReadoutFits object, on
\* every wavelength solution
WavelengthCall(s, w, z) ==
    LET c0 == [t \in 1..NTri |-> 1]
    IN  <<File(s, c0, c0, c0, c0),
          [op |-> "get_wavelength_indices", wavelengths |-> w, sizes |-> z]>>

\* the calls of the closure-phase getters, on the triangles with legs
\* (a, b) and (b, -a)
ClosureCall(a, b, o) ==
    LET s0 == [i \in 1..NSol |-> i]
    IN  <<File(s0, a, b, b, Neg(a)), [NoArgs EXCEPT !.op = o]>>

InitReadout ==
    /\ data = NoData
    /\ call = NoCall
    /\ wk = NoWorkers
    /\ \/ \E s \in Solutions, w \in SeqsUpTo(MaxTargets, 1..MaxWl),
             z \in SeqsUpTo(MaxSizes, 0..MaxWidth) :
              /\ readout = WavelengthCall(s, w, z)[1]
              /\ args = WavelengthCall(s, w, z)[2]
       \/ \E a \in Coords, b \in Coords,
             o \in {"get_closures_phase_uvcoords_split",
                    "get_closures_phase_uvcoords"} :
              /\ readout = ClosureCall(a, b, o)[1]
              /\ args = ClosureCall(a, b, o)[2]
    /\ out = NoOut

GetWavelengthIndices ==
    /\ args.op = "get_wavelength_indices"
    /\ out.op = "none"
    /\ LET res == get_wavelength_indices(readout, args.wavelengths, args.sizes)
       IN  out' = [NoOut EXCEPT !.op = args.op, !.raised = res.raised,
                                !.indices = res.indices]
    /\ UNCHANGED <<data, call, wk, readout, args>>

GetClosuresPhaseUvcoordsSplit ==
    /\ args.op = "get_closures_phase_uvcoords_split"
    /\ out.op = "none"
    /\ LET res == get_closures_phase_uvcoords_split(readout)
       IN  out' = [NoOut EXCEPT !.op = args.op, !.u = res.u, !.v = res.v]
    /\ UNCHANGED <<data, call, wk, readout, args>>

GetClosuresPhaseUvcoords ==
    /\ args.op = "get_closures_phase_uvcoords"
    /\ out.op = "none"
    /\ out' = [NoOut EXCEPT !.op = args.op,
                            !.uv = get_closures_phase_uvcoords(readout)]
    /\ UNCHANGED <<data, call, wk, readout, args>>

NextReadout ==
    \/ GetWavelengthIndices
    \/ GetClosuresPhaseUvcoordsSplit
    \/ GetClosuresPhaseUvcoords

SpecReadout == InitReadout /\ [][NextReadout]_vars

(***************************************************************************)
(* Radiative profiles (libs/utils.py)                                      *)
(*                                                                         *)
(* Numbers.  A positive physical quantity is kept as a product of powers:  *)
(* the exponents, in sixteenths, of the primes of the integer inputs and   *)
(* of the constants 4*pi*sigma_sb, 1 rad in mas and 1 pc in m.  Products,  *)
(* quotients, powers and roots act on the exponents, so two quantities     *)
(* with the same representation are the same real number.                  *)
(* A float of the power-law and flux code is an IEEE value: a reduced      *)
(* fraction, +inf, -inf or NaN.  A flux is kept by its IEEE class only     *)
(* (zero, pos, neg, pinf, ninf, nan), the Planck function being positive   *)
(* at every positive finite temperature.                                   *)
(***************************************************************************)
MaxQ == 4         \* temperature, distance and luminosity are 1..MaxQ
MaxRadius == 2    \* radius grids step by 0..MaxRadius, inner radii 1..MaxRadius
MaxExp == 1       \* power-law exponents are -MaxExp..MaxExp
MaxAmp == 1       \* inner temperature and inner optical depth are 0..MaxAmp
NPix == 2         \* grid points of a radius grid
MaxProfileWl == 3 \* flux_per_pixel is asked at 10, 20, .. 10 * MaxProfileWl um

RECURSIVE Multiplicity(_, _)
Multiplicity(n, p) ==
    IF n % p = 0 THEN 1 + Multiplicity(n \div p, p) ELSE 0

IsPrime(p) == p > 1 /\ \A k \in 2..(p - 1) : p % k # 0

\* the integer n as a quantity
Quantity(n) ==
    [e |-> [p \in 2..MaxQ |-> IF IsPrime(p) THEN 16 * Multiplicity(n, p) ELSE 0],
     sb |-> 0, mas |-> 0, pc |-> 0]

\* 4*np.pi*c.sigma_sb
four_pi_sigma_sb == [Quantity(1) EXCEPT !.sb = 16]

\* (1*u.rad).to(u.mas)
rad_to_mas == [Quantity(1) EXCEPT !.mas = 16]

\* distance.to(u.m) of a distance in pc
to_m(distance) == [distance EXCEPT !.pc = @ + 16]

QMul(a, b) ==
    [e |-> [p \in 2..MaxQ |-> a.e[p] + b.e[p]],
     sb |-> a.sb + b.sb, mas |-> a.mas + b.mas, pc |-> a.pc + b.pc]

QDiv(a, b) ==
    [e |-> [p \in 2..MaxQ |-> a.e[p] - b.e[p]],
     sb |-> a.sb - b.sb, mas |-> a.mas - b.mas, pc |-> a.pc - b.pc]

\* a**n
QPow(a, n) ==
    [e |-> [p \in 2..MaxQ |-> n * a.e[p]],
     sb |-> n * a.sb, mas |-> n * a.mas, pc |-> n * a.pc]

\* a**(1/n)
QRoot(a, n) ==
    [e |-> [p \in 2..MaxQ |-> a.e[p] \div n],
     sb |-> a.sb \div n, mas |-> a.mas \div n, pc |-> a.pc \div n]

_convert_orbital_radius_to_parallax(orbital_radius, distance) ==
    QMul(rad_to_mas, QDiv(orbital_radius, to_m(distance)))

\* the conversion dividing by the distance
_convert_parallax_to_orbital_radius_divided(parallax, distance) ==
    QDiv(QDiv(parallax, to_m(distance)), rad_to_mas)

_convert_parallax_to_orbital_radius(parallax, distance) ==
    QDiv(QMul(parallax, to_m(distance)), rad_to_mas)

_calculate_inner_radius(inner_temperature, distance, luminosity_star) ==
    LET radius == QRoot(QDiv(luminosity_star,
                             QMul(four_pi_sigma_sb, QPow(inner_temperature, 4))),
                        2)
    IN  _convert_orbital_radius_to_parallax(radius, distance)

\* inner_radius is in mas, the unit _calculate_inner_radius returns
_calculate_inner_temperature(inner_radius, distance, luminosity_star) ==
    LET r == _convert_parallax_to_orbital_radius(inner_radius, distance)
    IN  QRoot(QDiv(luminosity_star, QMul(four_pi_sigma_sb, QPow(r, 2))), 4)

(* IEEE values *)
Fin(n, d) ==
    LET g == Gcd(Abs(n), Abs(d))
        s == IF d < 0 THEN -1 ELSE 1
    IN  [kind |-> "fin", num |-> s * (n \div g), den |-> s * (d \div g)]

PInf == [kind |-> "pinf", num |-> 0, den |-> 1]
NInf == [kind |-> "ninf", num |-> 0, den |-> 1]
NaN == [kind |-> "nan", num |-> 0, den |-> 1]

RECURSIVE IPow(_, _)
IPow(b, n) == IF n = 0 THEN 1 ELSE b * IPow(b, n - 1)

\* x / y of two finite floats
fdiv(x, y) ==
    IF y.num = 0
    THEN IF x.num = 0 THEN NaN ELSE IF x.num > 0 THEN PInf ELSE NInf
    ELSE Fin(x.num * y.den, x.den * y.num)

\* b ** n for a float b that is not negative and an integer n
fpow(b, n) ==
    IF n = 0 THEN Fin(1, 1)
    ELSE IF b.kind = "nan" THEN NaN
    ELSE IF b.kind = "pinf" THEN (IF n > 0 THEN PInf ELSE Fin(0, 1))
    ELSE IF b.num = 0 THEN (IF n > 0 THEN Fin(0, 1) ELSE PInf)
    ELSE IF n > 0 THEN Fin(IPow(b.num, n), IPow(b.den, n))
    ELSE Fin(IPow(b.den, -n), IPow(b.num, -n))

Sign(v) ==
    IF v.kind = "pinf" THEN 1
    ELSE IF v.kind = "ninf" THEN -1
    ELSE IF v.num > 0 THEN 1 ELSE IF v.num < 0 THEN -1 ELSE 0

\* a * b
fmul(a, b) ==
    IF a.kind = "nan" \/ b.kind = "nan" THEN NaN
    ELSE IF a.kind = "fin" /\ b.kind = "fin"
         THEN Fin(a.num * b.num, a.den * b.den)
    ELSE IF Sign(a) * Sign(b) = 0 THEN NaN
    ELSE IF Sign(a) * Sign(b) > 0 THEN PInf ELSE NInf

\* astropy's PowerLaw1D.evaluate: amplitude * (x / x_0) ** (-alpha)
PowerLaw1D(x, amplitude, x_0, alpha) ==
    fmul(Fin(amplitude, 1), fpow(fdiv(Fin(x, 1), Fin(x_0, 1)), -alpha))

\* q is the power_law_exponent
temperature_gradient(radius, q, inner_radius, inner_temperature) ==
    [i \in 1..Len(radius) |->
        LET t == PowerLaw1D(radius[i], inner_temperature, inner_radius, q)
        IN  IF t = PInf THEN Fin(0, 1) ELSE t]

\* p is the power_law_exponent
optical_depth_gradient(radius, p, inner_radius, inner_optical_depth) ==
    [i \in 1..Len(radius) |->
        LET t == PowerLaw1D(radius[i], inner_optical_depth, inner_radius, p)
        IN  IF t = PInf THEN Fin(0, 1) ELSE t]

(* IEEE classes *)
Class(v) ==
    IF v.kind # "fin" THEN v.kind
    ELSE IF v.num > 0 THEN "pos" ELSE IF v.num < 0 THEN "neg" ELSE "zero"

ClassSign(c) ==
    IF c \in {"pos", "pinf"} THEN 1 ELSE IF c \in {"neg", "ninf"} THEN -1 ELSE 0

ClassMul(a, b) ==
    IF a = "nan" \/ b = "nan" THEN "nan"
    ELSE IF a \in {"pinf", "ninf"} \/ b \in {"pinf", "ninf"}
         THEN (IF ClassSign(a) * ClassSign(b) = 0 THEN "nan"
               ELSE IF ClassSign(a) * ClassSign(b) > 0 THEN "pinf" ELSE "ninf")
    ELSE IF ClassSign(a) * ClassSign(b) = 0 THEN "zero"
    ELSE IF ClassSign(a) * ClassSign(b) > 0 THEN "pos" ELSE "neg"

\* astropy's BlackBody of a temperature in K at a wavelength in um, as an
\* IEEE class: 2h nu^3 / (c^2 expm1(h nu / (k T))).  h nu / (k T) is
\* 14387.77 um K / (wavelength * T); once it exceeds ln(DBL_MAX / c^2) =
\* 670.7455, that is for wavelength * T < 21.4504 um K, the denominator
\* overflows to inf and the result is exactly 0.  "raise" is the ValueError
\* of a negative temperature.
BlackBody(temperature, wavelength) ==
    LET t == Class(temperature)
    IN  IF t = "nan" THEN "nan"
        ELSE IF t \in {"neg", "ninf"} THEN "raise"
        ELSE IF t = "zero" THEN "zero"
        ELSE IF t = "pinf" THEN "pinf"
        ELSE IF 10000 * wavelength * temperature.num < 214504 * temperature.den
        THEN "zero"
        ELSE "pos"

\* 1 - np.exp(-optical_depth)
absorption(tau) ==
    IF tau = "pinf" THEN "pos" ELSE tau

\* flux_per_pixel(wavelength, temperature_distribution, optical_depth,
\* pixel_size), the pixel size as its IEEE class; raised on a negative
\* temperature
flux_per_pixel(wavelength, temperature_distribution, optical_depth, pixel_size) ==
    LET bb == [i \in 1..Len(temperature_distribution) |->
                  BlackBody(temperature_distribution[i], wavelength)]
    IN  IF \E i \in 1..Len(bb) : bb[i] = "raise"
        THEN [raised |-> TRUE, flux |-> <<>>]
        ELSE [raised |-> FALSE,
              flux |-> [i \in 1..Len(bb) |->
                          ClassMul(ClassMul(bb[i],
                                            ClassMul(pixel_size, pixel_size)),
                                   absorption(Class(optical_depth[i])))]]

\* the inputs of the profile functions: a round trip of the inner radius,
\* or the profiles of a radius grid that starts at the centre
RadiusGrids == { [i \in 1..NPix |-> (i - 1) * s] : s \in 0..MaxRadius }

\* the wavelengths of flux_per_pixel, in um
ProfileWavelengths == { 10 * k : k \in 1..MaxProfileWl }

NoProfileArgs ==
    [op |-> "none", T |-> 1, d |-> 1, L |-> 1, radius |-> <<>>, q |-> 0,
     p |-> 0, r_in |-> 1, T_in |-> 0, tau_in |-> 0, wavelength |-> 10]

ProfileArgs ==
    { [NoProfileArgs EXCEPT !.op = "round_trip", !.T = t, !.d = d, !.L = l] :
        t \in 1..MaxQ, d \in 1..MaxQ, l \in 1..MaxQ }
    \cup
    { [NoProfileArgs EXCEPT !.op = "profile", !.radius = r, !.q = q, !.p = p,
                            !.r_in = ri, !.T_in = ti, !.tau_in = ta,
                            !.wavelength = wl] :
        r \in RadiusGrids, q \in -MaxExp..MaxExp, p \in -MaxExp..MaxExp,
        ri \in 1..MaxRadius, ti \in 0..MaxAmp, ta \in 0..MaxAmp,
        wl \in ProfileWavelengths }

NoProfileOut ==
    [op |-> "none", raised |-> FALSE, inner_radius |-> Quantity(1),
     inner_temperature |-> Quantity(1), temperature |-> <<>>,
     optical_depth |-> <<>>, flux |-> <<>>]

InitProfile ==
    /\ data = NoData
    /\ call = NoCall
    /\ wk = NoWorkers
    /\ readout = NoReadout
    /\ args \in ProfileArgs
    /\ out = NoProfileOut

CalculateInnerRadius ==
    /\ args.op = "round_trip"
    /\ out.op = "none"
    /\ out' = [out EXCEPT !.op = "_calculate_inner_radius",
                          !.inner_radius =
                              _calculate_inner_radius(Quantity(args.T),
                                  Quantity(args.d), Quantity(args.L))]
    /\ UNCHANGED <<data, call, wk, readout, args>>

CalculateInnerTemperature ==
    /\ args.op = "round_trip"
    /\ out.op = "_calculate_inner_radius"
    /\ out' = [out EXCEPT !.op = "_calculate_inner_temperature",
                          !.inner_temperature =
                              _calculate_inner_temperature(out.inner_radius,
                                  Quantity(args.d), Quantity(args.L))]
    /\ UNCHANGED <<data, call, wk, readout, args>>

TemperatureGradient ==
    /\ args.op = "profile"
    /\ out.op = "none"
    /\ out' = [out EXCEPT !.op = "temperature_gradient",
                          !.temperature =
                              temperature_gradient(args.radius, args.q,
                                                   args.r_in, args.T_in)]
    /\ UNCHANGED <<data, call, wk, readout, args>>

OpticalDepthGradient ==
    /\ args.op = "profile"
    /\ out.op = "temperature_gradient"
    /\ out' = [out EXCEPT !.op = "optical_depth_gradient",
                          !.optical_depth =
                              optical_depth_gradient(args.radius, args.p,
                                                     args.r_in, args.tau_in)]
    /\ UNCHANGED <<data, call, wk, readout, args>>

FluxPerPixel ==
    /\ args.op = "profile"
    /\ out.op = "optical_depth_gradient"
    /\ LET res == flux_per_pixel(args.wavelength, out.temperature,
                                 out.optical_depth, "pos")
       IN  out' = [out EXCEPT !.op = "flux_per_pixel", !.raised = res.raised,
                              !.flux = res.flux]
    /\ UNCHANGED <<data, call, wk, readout, args>>

NextProfile ==
    \/ CalculateInnerRadius
    \/ CalculateInnerTemperature
    \/ TemperatureGradient
    \/ OpticalDepthGradient
    \/ FluxPerPixel

SpecProfile == InitProfile /\ [][NextProfile]_vars

(***************************************************************************)
(* The image grid (functionality/model_base.py, Model.set_grid)            *)
(*                                                                         *)
(* The object is taken with its attributes image_size, pixel_sampling and  *)
(* mas_size set.  Axis values are exact fractions.  Axis ratios are        *)
(* multiples of 1/2 and stored doubled; position angles are in degrees.    *)
(* An angle in radians is kept as the fraction of pi it is, with its unit. *)
(***************************************************************************)
MaxPix == 4       \* image_size and pixel_sampling are 1..MaxPix
MaxFov == 2       \* mas_size is 1..MaxFov
MaxAxis2 == 4     \* doubled axis ratios are 0..MaxAxis2
MaxTurn == 1      \* position angles are 45*k degrees, k in -MaxTurn..(4 + MaxTurn)

\* n // 2 of Python, rounding towards minus infinity
FloorDiv2(n) == IF n >= 0 THEN n \div 2 ELSE -((1 - n) \div 2)

\* np.linspace(start, stop, num, endpoint=True)
linspace_endpoint(start, stop, num) ==
    [k \in 1..num |->
        IF num = 1 THEN Fin(start, 1)
        ELSE Fin(start * (num - 1) + (k - 1) * (stop - start), num - 1)]

\* np.linspace(start, stop, num, endpoint=False)
linspace(start, stop, num) ==
    [k \in 1..num |-> Fin(start * num + (k - 1) * (stop - start), num)]

_make_axis(axis_end, steps) == linspace(-axis_end, axis_end, steps)

\* Model.pixel_scaling
pixel_scaling(self) == Fin(self.mas_size, self.pixel_sampling)

\* (pos_angle*u.deg).to(u.rad) of a number
deg_to_rad(pos_angle) == [pi |-> Fin(pos_angle, 180), unit |-> "rad"]

\* quantity > 0: astropy compares any unit with 0
quantity_gt_zero(q) == q.pi.num > 0

\* quantity < number: astropy raises UnitConversionError, a ValueError,
\* unless the quantity is dimensionless
quantity_lt(q, number) ==
    IF q.unit # "" THEN "UnitConversionError"
    ELSE IF q.pi.num < number * q.pi.den THEN "True" ELSE "False"

\* (quantity*u.deg).to(u.rad): the unit "deg rad" of the product of an angle
\* in rad with u.deg is not an angle
quantity_deg_to_rad(q) ==
    IF q.unit = "" THEN "converted" ELSE "UnitConversionError"

\* the test of the axis ratio that also rejects 1
axis_ratio_rejected_inclusive(axis_ratio2) == axis_ratio2 <= 2

\* axis_ratio < 1.
axis_ratio_rejected(axis_ratio2) == axis_ratio2 < 2

\* np.arctan2(x1, x2) of two finite numbers: the angle of the direction
\* (x1, x2) from the x2 axis, kept as that direction in lowest integer
\* terms; np.arctan2(0, 0) is 0, the angle of (0, 1)
arctan2(x1, x2) ==
    LET a == x1.num * x2.den
        b == x2.num * x1.den
    IN  IF a = 0 /\ b = 0 THEN [x1 |-> 0, x2 |-> 1]
        ELSE [x1 |-> a \div Gcd(Abs(a), Abs(b)),
              x2 |-> b \div Gcd(Abs(a), Abs(b))]

\* what set_grid leaves and returns: with y = x[:, np.newaxis] the item
\* [i][j] of an array built from x and y takes x[j] and y[i] = x[i], so
\* self.polar_angle = np.arctan2(x, y) (line 241) holds arctan2(x[j], x[i])
Grid(raised, at, x) ==
    [raised |-> raised, at |-> at, x |-> x,
     polar_angle |-> [i \in 1..Len(x) |-> [j \in 1..Len(x) |->
                         arctan2(x[j], x[i])]],
     radius2 |-> [i \in 1..Len(x) |-> [j \in 1..Len(x) |->
                     Fin(x[j].num * x[j].num * x[i].den * x[i].den
                            + x[i].num * x[i].num * x[j].den * x[j].den,
                         x[j].den * x[j].den * x[i].den * x[i].den)]]]

\* Model.set_grid: the axis x (y is x as a column), the polar angles and
\* the squares of the returned radius, or the exception and the statement
\* that raised it
set_grid(self, incline_params) ==
    LET ps == pixel_scaling(self)
        ax == linspace(FloorDiv2(-self.image_size), FloorDiv2(self.image_size),
                       self.pixel_sampling)
        x  == [k \in 1..Len(ax) |-> Fin(ax[k].num * ps.num, ax[k].den * ps.den)]
    IN  IF incline_params = <<>> THEN Grid("none", "none", x)
        ELSE IF Len(incline_params) # 2
        THEN Grid("IOError", "incline_params", <<>>)
        ELSE LET axis_ratio2 == incline_params[1]
                 pos_angle == deg_to_rad(incline_params[2])
             IN  IF axis_ratio_rejected(axis_ratio2)
                 THEN Grid("ValueError", "axis_ratio", <<>>)
                 ELSE IF quantity_gt_zero(pos_angle)
                 THEN (IF quantity_lt(pos_angle, 180) = "False"
                       THEN Grid(quantity_deg_to_rad(pos_angle), "rotation", <<>>)
                       ELSE IF quantity_lt(pos_angle, 180) = "True"
                       THEN Grid("ValueError", "pos_angle", <<>>)
                       ELSE Grid(quantity_lt(pos_angle, 180), "pos_angle", <<>>))
                 ELSE Grid(quantity_deg_to_rad(pos_angle), "rotation", <<>>)

PosAngles == { 45 * k : k \in -MaxTurn..(4 + MaxTurn) }

InclineParams ==
    {<<>>, <<2>>, <<2, 0, 0>>}
    \cup { <<a, pa>> : a \in 0..MaxAxis2, pa \in PosAngles }

NoGridArgs ==
    [op |-> "none", image_size |-> 1, pixel_sampling |-> 1, mas_size |-> 1,
     incline_params |-> <<>>]

GridArgs ==
    { [op |-> "set_grid", image_size |-> n, pixel_sampling |-> s,
       mas_size |-> f, incline_params |-> ip] :
        n \in 1..MaxPix, s \in 1..MaxPix, f \in 1..MaxFov, ip \in InclineParams }

NoGridOut == [op |-> "none", raised |-> "none", at |-> "none", x |-> <<>>,
              polar_angle |-> <<>>, radius2 |-> <<>>]

InitGrid ==
    /\ data = NoData
    /\ call = NoCall
    /\ wk = NoWorkers
    /\ readout = NoReadout
    /\ args \in GridArgs
    /\ out = NoGridOut

SetGrid ==
    /\ args.op = "set_grid"
    /\ out.op = "none"
    /\ LET g == set_grid(args, args.incline_params)
       IN  out' = [op |-> "set_grid", raised |-> g.raised, at |-> g.at,
                   x |-> g.x, polar_angle |-> g.polar_angle,
                   radius2 |-> g.radius2]
    /\ UNCHANGED <<data, call, wk, readout, args>>

NextGrid == SetGrid

SpecGrid == InitGrid /\ [][NextGrid]_vars

(***************************************************************************)
(* The composite model (ppdmod/model.py)                                   *)
(*                                                                         *)
(* A component is given by what its two methods return: an image with the  *)
(* value level on every pixel and peak more on the centre pixel, and the   *)
(* complex visibility re + im*j.  Pixel values are integers.               *)
(* OPTIONS["fourier.binning"] is <<>> for None and <<b>> for the factor b. *)
(***************************************************************************)
MaxComp == 2      \* a model has 0..MaxComp components
MaxFlux == 1      \* peaks of the component images are 0..MaxFlux
MaxDim == 2       \* requested image dimensions are 1..MaxDim
MaxBin == 1       \* binning factors are 0..MaxBin

\* Component.calculate_image
component_calculate_image(component, img_dim) ==
    [i \in 1..img_dim |-> [j \in 1..img_dim |->
        component.level
          + (IF i = (img_dim \div 2) + 1 /\ j = (img_dim \div 2) + 1
             THEN component.peak ELSE 0)]]

\* Component.calculate_complex_visibility
component_calculate_complex_visibility(component) ==
    <<component.re, component.im>>

\* utils.get_binned_dimension
get_binned_dimension(dim, binning) == dim \div IPow(2, binning)

\* np.ones((n, n))
np_ones(n) == [i \in 1..n |-> [j \in 1..n |-> 1]]

\* np.zeros((n, n))
np_zeros(n) == [i \in 1..n |-> [j \in 1..n |-> 0]]

\* image += other
image_iadd(image, other) ==
    [i \in 1..Len(image) |-> [j \in 1..Len(image) |-> image[i][j] + other[i][j]]]

\* res += other
complex_iadd(res, other) == <<res[1] + other[1], res[2] + other[2]>>

\* the loop of Model.calculate_image over the first k components
RECURSIVE image_loop(_, _, _)
image_loop(components, k, img_dim) ==
    IF k = 0 THEN np_zeros(img_dim)
    ELSE image_iadd(image_loop(components, k - 1, img_dim),
                    component_calculate_image(components[k], img_dim))

calculate_image(components, dim, binning) ==
    LET img_dim == IF binning # <<>>
                   THEN get_binned_dimension(dim, binning[1])
                   ELSE dim
    IN  image_loop(components, Len(components), img_dim)

\* the loop of Model.calculate_complex_visibility over the first k components
RECURSIVE visibility_loop(_, _)
visibility_loop(components, k) ==
    IF k = 0 THEN <<0, 0>>
    ELSE complex_iadd(visibility_loop(components, k - 1),
                      component_calculate_complex_visibility(components[k]))

calculate_complex_visibility(components) ==
    visibility_loop(components, Len(components))

\* the attributes class Model of model_base.py gives its objects: the
\* properties and methods of lines 27-320 and the attributes __init__ binds
\* before line 41.  The class defines _get_flux (line 129) and no get_flux,
\* and no class under src/ adds one.
ModelAttributes ==
    {"name", "axes_image", "axes_complex_image", "polar_angle",
     "field_of_view", "image_size", "pixel_sampling",
     "sublimation_temperature", "effective_temperature",
     "pixel_scaling", "r_sub", "get_total_flux", "_stellar_radius_pc",
     "_sublimation_temperature", "_sublimation_radius", "_get_flux",
     "azimuthal_modulation", "set_grid", "set_uv_grid", "eval_model",
     "eval_vis"}

\* Model.get_total_flux(*args), line 68: np.sum(self.get_flux(*args)).  The
\* lookup of self.get_flux comes first and raises AttributeError on an
\* object without that attribute; `flux` is what get_flux would return on
\* an object that had it
get_total_flux(self, flux) ==
    IF "get_flux" \notin self.attributes
    THEN [raised |-> TRUE, error |-> "AttributeError", value |-> 0]
    ELSE [raised |-> FALSE, error |-> "", value |-> SumSeq(ravel(flux))]

ComponentSet ==
    { [peak |-> f, level |-> g, re |-> f + g, im |-> g - f] :
        f \in 0..MaxFlux, g \in 0..1 }

ModelArgs ==
    { [op |-> o, components |-> c, dim |-> d, binning |-> b] :
        o \in {"calculate_image", "calculate_complex_visibility",
               "get_total_flux"},
        c \in {<<>>} \cup SeqsUpTo(MaxComp, ComponentSet),
        d \in 1..MaxDim,
        b \in {<<>>} \cup { <<f>> : f \in 0..MaxBin } }

NoModelOut == [op |-> "none", image |-> <<>>, vis |-> <<0, 0>>,
               raised |-> FALSE, error |-> "", total_flux |-> 0]

InitModel ==
    /\ data = NoData
    /\ call = NoCall
    /\ wk = NoWorkers
    /\ readout = NoReadout
    /\ args \in ModelArgs
    /\ out = NoModelOut

CalculateImage ==
    /\ args.op = "calculate_image"
    /\ out.op = "none"
    /\ out' = [out EXCEPT !.op = args.op,
                          !.image = calculate_image(args.components, args.dim,
                                                    args.binning)]
    /\ UNCHANGED <<data, call, wk, readout, args>>

CalculateComplexVisibility ==
    /\ args.op = "calculate_complex_visibility"
    /\ out.op = "none"
    /\ out' = [out EXCEPT !.op = args.op,
                          !.vis = calculate_complex_visibility(args.components)]
    /\ UNCHANGED <<data, call, wk, readout, args>>

\* get_total_flux() on an object of class Model of model_base.py that
\* holds the image of the components
GetTotalFlux ==
    /\ args.op = "get_total_flux"
    /\ out.op = "none"
    /\ LET self == [attributes |-> ModelAttributes]
           ret == get_total_flux(self,
                                 calculate_image(args.components, args.dim,
                                                 args.binning))
       IN  out' = [out EXCEPT !.op = args.op,
                              !.raised = ret.raised,
                              !.error = ret.error,
                              !.total_flux = ret.value]
    /\ UNCHANGED <<data, call, wk, readout, args>>

NextModel ==
    \/ CalculateImage
    \/ CalculateComplexVisibility
    \/ GetTotalFlux

SpecModel == InitModel /\ [][NextModel]_vars

(***************************************************************************)
(* The initial guess of the sampler (libs/utils.py)                        *)
(*                                                                         *)
(* Bounds of priors are integers; the guess and the quarter of a prior's   *)
(* width are stored four-fold, so that they are integers too.  The random  *)
(* draw is a choice among the multiples of 1/4 of the interval drawn from. *)
(***************************************************************************)
MaxPriors == 2    \* a call passes 1..MaxPriors priors
MaxLower == 1     \* lower bounds are 0..MaxLower
MaxSpan == 2      \* upper - lower is 0..MaxSpan

\* a quarter of nothing: the whole prior is drawn from
quarter_prior_distance_zero(prior) == 0

\* np.diff(prior)/4, four-fold
quarter_prior_distance(prior) == prior[2] - prior[1]

\* np.random.uniform(low, high)[0]: the values that can be drawn, four-fold
uniform(low4, high4) == low4..high4

\* the arrays make_inital_guess_from_priors can return, four-fold
make_inital_guess_from_priors(priors) ==
    LET draws(prior) ==
            uniform(4 * prior[1] + quarter_prior_distance(prior),
                    4 * prior[2] - quarter_prior_distance(prior))
    IN  { params \in [1..Len(priors) -> 0..(4 * (MaxLower + MaxSpan))] :
            \A i \in 1..Len(priors) : params[i] \in draws(priors[i]) }

\* the priors four-fold, as lnprior meets them with a four-fold theta
FourFold(priors) ==
    [i \in 1..Len(priors) |-> <<4 * priors[i][1], 4 * priors[i][2]>>]

PriorSet == { <<l, l + s>> : l \in 0..MaxLower, s \in 0..MaxSpan }

NoGuessArgs == [op |-> "none", priors |-> <<>>]

GuessArgs ==
    { [op |-> "make_inital_guess_from_priors", priors |-> p] :
        p \in SeqsUpTo(MaxPriors, PriorSet) }

NoGuessOut == [op |-> "none", params |-> <<>>, lnprior |-> Zero]

InitGuess ==
    /\ data = NoData
    /\ call = NoCall
    /\ wk = NoWorkers
    /\ readout = NoReadout
    /\ args \in GuessArgs
    /\ out = NoGuessOut

MakeInitalGuessFromPriors ==
    /\ args.op = "make_inital_guess_from_priors"
    /\ out.op = "none"
    /\ \E params \in make_inital_guess_from_priors(args.priors) :
          out' = [out EXCEPT !.op = args.op, !.params = params]
    /\ UNCHANGED <<data, call, wk, readout, args>>

\* the sampler scores the guess: lnprior on the guess and its priors
LnpriorOfGuess ==
    /\ out.op = "make_inital_guess_from_priors"
    /\ out' = [out EXCEPT !.op = "lnprior",
                          !.lnprior = lnprior(out.params, FourFold(args.priors))]
    /\ UNCHANGED <<data, call, wk, readout, args>>

NextGuess ==
    \/ MakeInitalGuessFromPriors
    \/ LnpriorOfGuess

SpecGuess == InitGuess /\ [][NextGuess]_vars

(***************************************************************************)
(* The flux file (libs/readout.py, ReadoutFits._get_flux_file_data)        *)
(*                                                                         *)
(* Wavelengths are integers, in tenths of a micrometre.  The mean of the   *)
(* flux file's n wavelengths is their sum over n: the window around it is  *)
(* asked with every wavelength multiplied by n.  A flux file has two or    *)
(* three rows, on which scipy's CubicSpline is the polynomial through the  *)
(* rows; interpolated fluxes are exact fractions.                          *)
(***************************************************************************)
MaxFluxWl == 8    \* wavelengths of a flux file are 1..MaxFluxWl um
MaxFluxVal == 1   \* fluxes of a flux file are 0..MaxFluxVal
DefaultWindow == 2         \* the default window, 0.2 um, in tenths of a um

fadd(a, b) == Fin(a.num * b.den + b.num * a.den, a.den * b.den)

RECURSIVE fsum(_, _)
fsum(f, k) == IF k = 0 THEN Fin(0, 1) ELSE fadd(fsum(f, k - 1), f[k])

RECURSIVE IntSum(_, _)
IntSum(s, k) == IF k = 0 THEN 0 ELSE IntSum(s, k - 1) + s[k]

RECURSIVE IntProd(_, _)
IntProd(s, k) == IF k = 0 THEN 1 ELSE IntProd(s, k - 1) * s[k]

Scaled(s, n) == [i \in 1..Len(s) |-> n * s[i]]

\* CubicSpline(x, y)(at) for two or three rows: the interpolating polynomial
CubicSpline(x, y, at) ==
    LET n == Len(x)
        term(i) ==
            Fin(y[i] * IntProd([j \in 1..n |-> IF j = i THEN 1 ELSE at - x[j]], n),
                IntProd([j \in 1..n |-> IF j = i THEN 1 ELSE x[i] - x[j]], n))
    IN  fsum([i \in 1..n |-> term(i)], n)

\* ReadoutFits._get_flux_file_data on the rows (wavelength, flux) of the flux
\* file: the flux and its error, of shape (1, n), or raised = TRUE on
\* IOError.  Wavelengths are whole micrometres and the default window of
\* get_wavelength_indices is DefaultWindow tenths of a micrometre; the mean
\* sum / n and the window are compared with the solution in units of
\* 1 / (10 * n) um.  No whole wavelength lies on a bound mean -+ 0.1 of the
\* mean of fewer than ten whole wavelengths, nor closer to it than
\* 1 / (10 * n) um, so the rounding of the floats decides no comparison.
_get_flux_file_data(self, wavelength_from_single_dish, flux_from_single_dish) ==
    LET n == Len(wavelength_from_single_dish)
        sum == IntSum(wavelength_from_single_dish, n)
        ind == get_wavelength_indices(
                   [self EXCEPT !.wavelength_solution = Scaled(@, 10 * n)],
                   <<10 * sum>>, <<n * DefaultWindow>>).indices
        flux == [k \in 1..Len(self.wavelength_solution) |->
                    CubicSpline(wavelength_from_single_dish,
                                flux_from_single_dish,
                                self.wavelength_solution[k])]
    IN  IF \E k \in 1..Len(ind) : ind[k] = <<>>
        THEN [raised |-> TRUE, flux |-> <<>>, error |-> <<>>]
        ELSE [raised |-> FALSE, flux |-> <<flux>>,
              error |-> <<[k \in 1..Len(flux) |->
                             Fin(flux[k].num, 10 * flux[k].den)]>>]

\* the rows of a flux file: two or three increasing wavelengths
FluxFileWavelengths ==
    { w \in UNION { [1..n -> 1..MaxFluxWl] : n \in 2..3 } :
        \A i \in 1..(Len(w) - 1) : w[i] < w[i + 1] }

FluxFiles ==
    { [wavelength |-> w,
       flux |-> [i \in 1..Len(w) |-> (c + i) % (MaxFluxVal + 1)]] :
        w \in FluxFileWavelengths, c \in 0..MaxFluxVal }

FluxArgs ==
    { [op |-> "_get_flux_file_data", flux_file |-> f] : f \in FluxFiles }

NoFluxOut == [op |-> "none", raised |-> FALSE, flux |-> <<>>, error |-> <<>>]

InitFlux ==
    /\ data = NoData
    /\ call = NoCall
    /\ wk = NoWorkers
    /\ \E s \in Solutions :
          readout = File(s, [t \in 1..NTri |-> 1], [t \in 1..NTri |-> 1],
                         [t \in 1..NTri |-> 1], [t \in 1..NTri |-> 1])
    /\ args \in FluxArgs
    /\ out = NoFluxOut

GetFluxFileData ==
    /\ args.op = "_get_flux_file_data"
    /\ out.op = "none"
    /\ LET res == _get_flux_file_data(readout, args.flux_file.wavelength,
                                      args.flux_file.flux)
       IN  out' = [op |-> args.op, raised |-> res.raised, flux |-> res.flux,
                   error |-> res.error]
    /\ UNCHANGED <<data, call, wk, readout, args>>

NextFlux == GetFluxFileData

SpecFlux == InitFlux /\ [][NextFlux]_vars

(***************************************************************************)
(* fitting_utils.py: calculate_model with its debug switch                 *)
(***************************************************************************)
NCalcWl == 3      \* data.wavelengths has at most this many entries
MaxCalcWl == 3    \* its entries are 1..MaxCalcWl
MaxCalcReadouts == 2   \* at most this many readouts of 6 correlated fluxes

\* the numbers of correlated fluxes per wavelength: whole readouts, and
\* numbers that are no multiple of 6
CorrColumns ==
    {1, 6 * MaxCalcReadouts + 1} \cup { 6 * g : g \in 1..MaxCalcReadouts }

\* the data objects calculate_model is called on: any wavelengths, in any
\* order, repeated or not
CalcBundles ==
    { [Bundle(UnitErr(1), UnitErr(1), UnitErr(c), UnitErr(c),
              UnitErr(NCph), UnitErr(NCph), FALSE, FALSE)
         EXCEPT !.wavelengths = wl] :
        wl \in {<<>>} \cup SeqsUpTo(NCalcWl, 1..MaxCalcWl),
        c \in CorrColumns }

CalcArgs ==
    { [op |-> "calculate_model", theta |-> <<p>>, rfourier |-> rf,
       debug |-> dbg] :
        p \in 0..MaxTheta, rf \in BOOLEAN, dbg \in BOOLEAN }

NoCalcOut == [op |-> "none", raised |-> FALSE, total |-> <<>>, corr |-> <<>>,
              cph |-> <<>>, fourier |-> <<>>]

InitCalc ==
    /\ data \in CalcBundles
    /\ call = NoCall
    /\ wk = NoWorkers
    /\ readout = NoReadout
    /\ args \in CalcArgs
    /\ out = NoCalcOut

\* calculate_model(theta, data, rfourier, debug); the fourth value is
\* returned with rfourier only
CalculateModel ==
    /\ args.op = "calculate_model"
    /\ out.op = "none"
    /\ LET ret == calculate_model(args.theta, data, args.rfourier, args.debug)
       IN  out' = [op |-> "calculate_model", raised |-> ret.raised,
                   total |-> ret.total, corr |-> ret.corr, cph |-> ret.cph,
                   fourier |-> IF args.rfourier THEN ret.fourier ELSE <<>>]
    /\ data' = calculate_model_data(args.theta, data)
    /\ UNCHANGED <<call, wk, readout, args>>

NextCalc == CalculateModel

SpecCalc == InitCalc /\ [][NextCalc]_vars

(***************************************************************************)
(* readout.py: the visibilities and their averages over wavelength windows *)
(***************************************************************************)
NBase == 2        \* baselines of the oi_vis table
NVisWl == 2       \* wavelengths of the oi_vis table
MaxVisNum == 3    \* amplitudes are 0/VisDen..(MaxVisNum + 1)/VisDen
VisDen == 2       \* denominator of the amplitudes
MaxWindows == 2   \* at most this many wavelength windows in a call

\* an astropy Quantity: the value (a float for ndim 0, nested rows
\* otherwise), the unit and the number of dimensions
Q(value, unit, ndim) ==
    [raised |-> FALSE, value |-> value, unit |-> unit, ndim |-> ndim]

\* the call raised instead of returning a Quantity
QRaised == [raised |-> TRUE, value |-> <<>>, unit |-> "none", ndim |-> 0]

\* u.Quantity(items) of a list of Quantities: the unit is the one of the
\* first item and every item is converted to it, which fails between Jy and
\* dimensionless, and the items are stacked, which fails when their shapes
\* differ; the empty list gives an empty dimensionless Quantity (SubSeq
\* makes a sequence of the items, so that each is worked out once)
u_Quantity(items) ==
    LET its == SubSeq(items, 1, Len(items))
    IN  IF Len(its) = 0 THEN Q(<<>>, "dimensionless", 1)
        ELSE IF \E i \in 1..Len(its) : its[i].unit # its[1].unit
             THEN QRaised
        ELSE IF \E i \in 1..Len(its) : its[i].ndim # its[1].ndim
             THEN QRaised
        ELSE IF its[1].ndim > 0
                /\ \E i \in 1..Len(its) :
                      Len(its[i].value) # Len(its[1].value)
             THEN QRaised
        ELSE Q(SubSeq([i \in 1..Len(its) |-> its[i].value], 1, Len(its)),
               its[1].unit, its[1].ndim + 1)

\* np.mean(data_slice, axis=0) of the rows of a two-dimensional slice: the
\* mean of each column; of an empty one-dimensional slice: NaN
np_mean_axis0(data_slice) ==
    IF data_slice.ndim = 1
    THEN Q(NaN, data_slice.unit, 0)
    ELSE LET n == Len(data_slice.value)
             column(b) == [i \in 1..n |-> data_slice.value[i][b]]
         IN  Q([b \in 1..Len(data_slice.value[1]) |->
                    fdiv(fsum(column(b), n), Fin(n, 1))],
               data_slice.unit, 1)

\* average_polychromatic_data taking the first slice of every window
average_polychromatic_data_first(polychromatic_data) ==
    u_Quantity([k \in 1..Len(polychromatic_data) |->
                  IF polychromatic_data[k].ndim = 1
                  THEN Q(NaN, polychromatic_data[k].unit, 0)
                  ELSE Q(polychromatic_data[k].value[1],
                         polychromatic_data[k].unit, 1)])

\* average_polychromatic_data: the mean of every window's slices
average_polychromatic_data(polychromatic_data) ==
    u_Quantity([k \in 1..Len(polychromatic_data) |->
                  np_mean_axis0(polychromatic_data[k])])

\* lines 168-174 for one dataset: the slices of every window, one row per
\* wavelength index of the window and one column per array of the dataset,
\* then their average
dataset_for_wavelength(dataset, wl_poly_indices) ==
    LET array_wl_slice(wl_index) ==
            u_Quantity([b \in 1..Len(dataset.value) |->
                          Q(dataset.value[b][wl_index + 1], dataset.unit, 0)])
        data4wl ==
            [k \in 1..Len(wl_poly_indices) |->
                u_Quantity([j \in 1..Len(wl_poly_indices[k]) |->
                              array_wl_slice(wl_poly_indices[k][j])])]
    IN  average_polychromatic_data(data4wl)

\* get_data_for_wavelength: one averaged array per dataset; an error in any
\* of them ends the call
get_data_for_wavelength(d, wl_poly_indices) ==
    LET polychromatic_data_averaged ==
            [s \in 1..Len(d) |-> dataset_for_wavelength(d[s], wl_poly_indices)]
    IN  [raised |-> \E s \in 1..Len(d) : polychromatic_data_averaged[s].raised,
         ret |-> polychromatic_data_averaged]

\* get_data("oi_vis", "visamp", "visamperr"): the two columns of the table
get_data(self, header, sub_header1, sub_header2) ==
    <<self[header][sub_header1], self[header][sub_header2]>>

\* get_visibilities: both columns times u.Jy
get_visibilities(self) ==
    LET d == get_data(self, "oi_vis", "visamp", "visamperr")
    IN  <<Q(d[1], "Jy", 2), Q(d[2], "Jy", 2)>>

\* the oi_vis tables: amplitudes from lowest/VisDen on, equal on all
\* baselines and wavelengths or alternating with the next value up, and
\* errors of a quarter or a half of the denominator's unit
VisFiles ==
    { [oi_vis |->
        [visamp |-> [b \in 1..NBase |-> [i \in 1..NVisWl |->
                        Fin(lowest + step * ((b + i) % 2), VisDen)]],
         visamperr |-> [b \in 1..NBase |-> [i \in 1..NVisWl |->
                        Fin(1 + ((b + 2 * i) % 2), 2 * VisDen)]]]] :
        lowest \in 0..MaxVisNum, step \in 0..1 }

\* the index lists np.where gives for a window: increasing indices of the
\* wavelength solution, none included
RECURSIVE WindowIndices(_)
WindowIndices(n) ==
    IF n = 0 THEN {<<>>}
    ELSE WindowIndices(n - 1)
            \cup { Append(w, n - 1) : w \in WindowIndices(n - 1) }

VisArgs ==
    { [op |-> "get_visibilities", wl_poly_indices |-> wpi] :
        wpi \in SeqsUpTo(MaxWindows, WindowIndices(NVisWl)) }

NoVisOut == [op |-> "none", raised |-> FALSE, ret |-> <<>>]

InitVis ==
    /\ data = NoData
    /\ call = NoCall
    /\ wk = NoWorkers
    /\ readout \in VisFiles
    /\ args \in VisArgs
    /\ out = NoVisOut

\* visdata = readout.get_visibilities()
GetVisibilities ==
    /\ args.op = "get_visibilities"
    /\ out.op = "none"
    /\ out' = [op |-> "get_visibilities", raised |-> FALSE,
               ret |-> get_visibilities(readout)]
    /\ UNCHANGED <<data, call, wk, readout, args>>

\* readout.get_data_for_wavelength(visdata, wl_poly_indices)
GetDataForWavelength ==
    /\ out.op = "get_visibilities"
    /\ LET r == get_data_for_wavelength(out.ret, args.wl_poly_indices)
       IN  out' = [op |-> "get_data_for_wavelength", raised |-> r.raised,
                   ret |-> r.ret]
    /\ UNCHANGED <<data, call, wk, readout, args>>

NextVis == GetVisibilities \/ GetDataForWavelength

SpecVis == InitVis /\ [][NextVis]_vars

(***************************************************************************)
(* utils.py: IterNamespace                                                 *)
(***************************************************************************)
MaxKw == 2        \* keyword arguments of a construction
MaxAssign == 1    \* attribute assignments after the construction
MaxNsInt == 1     \* the plain attribute values are 0..MaxNsInt

\* the keyword names of a construction, the names assigned to later (one of
\* them new), and the characters of a name
NsNames == {"ab", "c", "_d"}
LaterNames == {"c", "e"}

Chars(name) ==
    IF name = "ab" THEN <<"a", "b">>
    ELSE IF name = "_d" THEN <<"_", "d">>
    ELSE <<name>>

\* attr.startswith("__") or attr.startswith("_")
startswith_underscore(attr) == attr \in {"_d", "_", "_fields"}

\* attribute values: integers and lists of integers
IntValue(n) == [type |-> "int", v |-> <<n>>]
ListValue(l) == [type |-> "list", v |-> l]
NsValues ==
    { IntValue(n) : n \in 0..MaxNsInt } \cup { ListValue(<<7, 8>>) }

\* isinstance(value, list)
isinstance_list(value) == value.type = "list"

\* zip(keys, values) of two sequences: pairs up to the shorter one
zip(keys, values) ==
    LET n == IF Len(keys) < Len(values) THEN Len(keys) ELSE Len(values)
    IN  [i \in 1..n |-> [attr |-> keys[i], val |-> values[i]]]

\* dict(pairs): the last value given for a key, at the place of its first
RECURSIVE dict(_)
dict(pairs) ==
    IF pairs = <<>> THEN <<>>
    ELSE LET init == dict(SubSeq(pairs, 1, Len(pairs) - 1))
             last == pairs[Len(pairs)]
         IN  IF \E i \in 1..Len(init) : init[i].attr = last.attr
             THEN [i \in 1..Len(init) |->
                     IF init[i].attr = last.attr THEN last ELSE init[i]]
             ELSE Append(init, last)

\* IterNamespace(**kwargs): __dict__ holds the keyword arguments in their
\* order and _fields their names (the _fields entry of __dict__ itself is
\* kept apart here)
IterNamespace(kwargs) ==
    [dict |-> dict(kwargs),
     fields |-> [i \in 1..Len(dict(kwargs)) |-> dict(kwargs)[i].attr]]

\* ns.attr = val after the construction
setattr(ns, attr, val) ==
    [ns EXCEPT !.dict = dict(Append(ns.dict, [attr |-> attr, val |-> val]))]

\* __len__
len(ns) == Len(ns.fields)

\* __iter__: the values of the attributes whose name has no leading
\* underscore, in the order of __dict__
iter(ns) ==
    LET public(item) == ~startswith_underscore(item.attr)
        items == SelectSeq(ns.dict, public)
    IN  [i \in 1..Len(items) |-> items[i].val]

\* to_string: one string per value of the iteration
to_string(ns) == [i \in 1..Len(iter(ns)) |-> [str |-> iter(ns)[i]]]

\* to_string_dict
to_string_dict(ns) == dict(zip(ns.fields, to_string(ns)))

NoItem == [index |-> -1, raised |-> FALSE, kind |-> "none",
           value |-> IntValue(0), ns |-> IterNamespace(<<>>)]

\* __getitem__ with an integer index (0-based): IndexError past the end of
\* _fields or of the iteration, a new IterNamespace zipped from the
\* characters of the field's name when the value is a list, the value
\* otherwise
getitem(ns, index) ==
    IF index >= Len(ns.fields) \/ index >= Len(iter(ns))
    THEN [NoItem EXCEPT !.index = index, !.raised = TRUE]
    ELSE LET keys   == ns.fields[index + 1]
             values == iter(ns)[index + 1]
         IN  IF isinstance_list(values)
             THEN [NoItem EXCEPT
                     !.index = index, !.kind = "namespace",
                     !.ns = IterNamespace(
                               zip(Chars(keys),
                                   [i \in 1..Len(values.v) |->
                                       IntValue(values.v[i])]))]
             ELSE [NoItem EXCEPT !.index = index, !.kind = "value",
                                 !.value = values]

\* the keyword arguments of a construction: distinct names, any values
RECURSIVE Kwargs(_)
Kwargs(n) ==
    IF n = 0 THEN {<<>>}
    ELSE Kwargs(n - 1)
            \cup { Append(kw, [attr |-> a, val |-> v]) :
                     kw \in { k \in Kwargs(n - 1) : Len(k) = n - 1 },
                     a \in NsNames, v \in NsValues }

DistinctNames(kw) ==
    \A i, j \in 1..Len(kw) : kw[i].attr = kw[j].attr => i = j

NamespaceArgs ==
    { [op |-> "IterNamespace", kwargs |-> kw] :
        kw \in { k \in Kwargs(MaxKw) : DistinctNames(k) } }

(***************************************************************************)
(* utils.py: make_fixed_params                                             *)
(***************************************************************************)
MaxFixedValue == 1   \* the numbers given are i..i + MaxFixedValue for field i

\* the nominal solar luminosity c.L_sun = 3.828e26 W = 3828 * 10^23 W
L_sun_mantissa == 3828
L_sun_exp10 == 23

FixedKeys == <<"fov", "image_size", "sub_temp", "eff_temp", "distance",
               "lum_star", "pixel_sampling">>
FixedUnits == <<"mas", "dimensionless", "K", "K", "pc", "W", "dimensionless">>

\* the values of the arguments: None, a number, or a Quantity of
\* value * 10^exp10 in its unit
None == [kind |-> "None", value |-> 0, exp10 |-> 0, unit |-> "none"]
Number(n) == [kind |-> "number", value |-> n, exp10 |-> 0, unit |-> "none"]
Qty(n, unit) == [kind |-> "Quantity", value |-> n, exp10 |-> 0, unit |-> unit]

\* isinstance(value, u.Quantity)
isinstance_Quantity(value) == value.kind = "Quantity"

\* value * c.L_sun
times_L_sun(value) ==
    [kind |-> "Quantity", value |-> value.value * L_sun_mantissa,
     exp10 |-> value.exp10 + L_sun_exp10, unit |-> "W"]

\* the unit test accepting every unit
wrong_unit_accepted(value, unit) == FALSE

\* value.unit != units[i]
wrong_unit(value, unit) == value.unit # unit

\* fixed_param_dict[key]
item(fixed_param_dict, key) ==
    LET at == CHOOSE k \in 1..Len(fixed_param_dict) :
                  fixed_param_dict[k].attr = key
    IN  fixed_param_dict[at].val

\* the loop over enumerate(fixed_param_dict.items()) after its first n
\* rounds: the dictionary as updated so far, or the IOError raised
RECURSIVE fixed_param_loop(_, _)
fixed_param_loop(fixed_param_dict, n) ==
    IF n = 0 THEN [raised |-> FALSE, dict |-> fixed_param_dict]
    ELSE LET prev  == fixed_param_loop(fixed_param_dict, n - 1)
             key   == prev.dict[n].attr
             value == prev.dict[n].val
             new   ==
                IF key = "image_size" THEN Qty(value.value, "dimensionless")
                ELSE IF key = "pixel_sampling"
                     THEN IF value.kind = "None"
                          THEN item(prev.dict, "image_size")
                          ELSE Qty(value.value, "dimensionless")
                ELSE IF key = "lum_star" THEN times_L_sun(value)
                ELSE Qty(value.value, FixedUnits[n])
         IN  IF prev.raised THEN prev
             ELSE IF ~isinstance_Quantity(value)
                  THEN [raised |-> FALSE,
                        dict |-> [prev.dict EXCEPT ![n].val = new]]
             ELSE IF wrong_unit(value, FixedUnits[n])
                  THEN [raised |-> TRUE, dict |-> prev.dict]
             ELSE prev

make_fixed_params(field_of_view, image_size, sublimation_temperature, effective_temperature, distance, luminosity_star, pixel_sampling) ==
    LET values == <<field_of_view, image_size, sublimation_temperature,
                    effective_temperature, distance, luminosity_star,
                    pixel_sampling>>
        fixed_param_dict == dict(zip(FixedKeys, values))
        done == fixed_param_loop(fixed_param_dict, Len(fixed_param_dict))
    IN  [raised |-> done.raised,
         ret |-> IF done.raised THEN IterNamespace(<<>>)
                 ELSE IterNamespace(done.dict)]

\* the calls: every argument a number or a Quantity (pixel_sampling may be
\* None as well), the Quantities in the unit of their field except for at
\* most one, which is in another unit
OtherUnits == {"mas", "dimensionless", "K", "pc", "W", "arcsec"}

FixedValue(i, kind, base, odd, unit) ==
    IF kind = "None" THEN None
    ELSE IF kind = "number" THEN Number(base + i)
    ELSE IF odd = i THEN Qty(base + i, unit)
    ELSE Qty(base + i, FixedUnits[i])

FixedParamArgs ==
    { [op |-> "make_fixed_params",
       field_of_view |-> FixedValue(1, kinds[1], base, odd, unit),
       image_size |-> FixedValue(2, kinds[2], base, odd, unit),
       sublimation_temperature |-> FixedValue(3, kinds[3], base, odd, unit),
       effective_temperature |-> FixedValue(4, kinds[4], base, odd, unit),
       distance |-> FixedValue(5, kinds[5], base, odd, unit),
       luminosity_star |-> FixedValue(6, kinds[6], base, odd, unit),
       pixel_sampling |-> FixedValue(7, IF none THEN "None" ELSE kinds[7],
                                     base, odd, unit)] :
        kinds \in [1..7 -> {"number", "Quantity"}], none \in BOOLEAN,
        base \in 0..MaxFixedValue, odd \in 0..7, unit \in OtherUnits }

(***************************************************************************)
(* utils.py: calculate_effective_baselines                                 *)
(***************************************************************************)
MaxBaselines == 3 \* (u, v) pairs of a baseline list
MaxTri == 2       \* triangles of a closure-phase array
MaxCoord == 2     \* coordinates are 0..MaxCoord metres
MaxRatio == 2     \* the axis ratio is 1/MaxRatio..MaxRatio/MaxRatio
MaxQuarter == 3   \* the position angle is 0..MaxQuarter quarter turns
MaxBlWl == 2      \* the wavelength is 1..MaxBlWl micrometres

\* cos and sin of a number of quarter turns
CosQ(k) == <<1, 0, -1, 0>>[(k % 4) + 1]
SinQ(k) == <<0, 1, 0, -1>>[(k % 4) + 1]

\* x.squeeze(): the axes of length one are dropped
squeeze(shape) == SelectSeq(shape, LAMBDA n : n # 1)

\* the number of elements of an array of this shape
RECURSIVE size(_)
size(shape) == IF shape = <<>> THEN 1 ELSE Head(shape) * size(Tail(shape))

\* lines 36-46 for one (u, v) pair, squared: with B the projected baseline
\* and t its angle arctan2(u, v), B*cos(t - pa) = v*cos(pa) + u*sin(pa) and
\* B*sin(t - pa) = u*cos(pa) - v*sin(pa)
effective_baseline_squared(u_coord, v_coord, axis_ratio, pos_angle, wavelength) ==
    LET cp == CosQ(pos_angle)
        sp == SinQ(pos_angle)
        b_cos_atd == v_coord * cp + u_coord * sp
        b_sin_atd == u_coord * cp - v_coord * sp
        u_coords_eff == fadd(Fin(b_cos_atd * cp, 1),
                             fmul(axis_ratio, Fin(-(b_sin_atd * sp), 1)))
        v_coords_eff == fadd(Fin(b_cos_atd * sp, 1),
                             fmul(axis_ratio, Fin(b_sin_atd * cp, 1)))
    IN  fdiv(fadd(fmul(u_coords_eff, u_coords_eff),
                  fmul(v_coords_eff, v_coords_eff)),
             Fin(wavelength * wavelength, 1))

\* uv_coords.shape[0] == 3
is_closure(uv_coords) == uv_coords.shape[1] = 3

\* the body of calculate_effective_baselines (lines 31-47) on an array
\* given by its shape and its (u, v) pairs in row-major order: np.split
\* reads uv_coords.shape[axis] first, an IndexError for axis 2 of a
\* two-dimensional array; the value has the
\* squeezed shape of the halves, holds the squares of the effective
\* baselines, and is a length in metres, as the division of line 47 is by
\* the bare number wavelength.value
calculate_effective_baselines__wrapped__(uv_coords, axis_ratio, pos_angle, wavelength) ==
    LET axis == IF is_closure(uv_coords) THEN 2 ELSE 1
        half == [i \in 1..Len(uv_coords.shape) |->
                    IF i = axis + 1 THEN uv_coords.shape[i] \div 2
                    ELSE uv_coords.shape[i]]
    IN  IF axis >= Len(uv_coords.shape)
        THEN [raised |-> TRUE, error |-> "IndexError", unit |-> "",
              shape |-> <<>>, value |-> <<>>]
        ELSE [raised |-> FALSE, error |-> "", unit |-> "m",
              shape |-> squeeze(half),
              value |-> [i \in 1..Len(uv_coords.pairs) |->
                            effective_baseline_squared(
                                uv_coords.pairs[i][1], uv_coords.pairs[i][2],
                                axis_ratio, pos_angle, wavelength)]]

\* u.quantity_input on the returned value: it is converted to the unit of
\* the return annotation, which fails for a unit of another physical type
quantity_input_return(return_, annotation) ==
    IF return_.raised THEN return_
    ELSE IF return_.unit # annotation
    THEN [raised |-> TRUE, error |-> "UnitsError", unit |-> "",
          shape |-> <<>>, value |-> <<>>]
    ELSE return_

\* calculate_effective_baselines as decorated (lines 13-17): its return
\* annotation is u.dimensionless_unscaled
calculate_effective_baselines(uv_coords, axis_ratio, pos_angle, wavelength) ==
    quantity_input_return(
        calculate_effective_baselines__wrapped__(uv_coords, axis_ratio,
                                                 pos_angle, wavelength),
        "")

\* (u, v) pairs in rotation from (x, y) on
UvPairs(n, x, y) ==
    [i \in 1..n |-> <<(x + i) % (MaxCoord + 1), (y + 2 * i) % (MaxCoord + 1)>>]

\* lists of N baselines (N x 2) and arrays of three triangle legs (3 x T x 2)
UvArrays ==
    { [shape |-> <<n, 2>>, pairs |-> UvPairs(n, x, y)] :
        n \in 1..MaxBaselines, x \in 0..MaxCoord, y \in 0..MaxCoord }
    \cup
    { [shape |-> <<3, t, 2>>, pairs |-> UvPairs(3 * t, x, y)] :
        t \in 1..MaxTri, x \in 0..MaxCoord, y \in 0..MaxCoord }

BaselineArgs ==
    { [op |-> "calculate_effective_baselines", uv_coords |-> uv,
       axis_ratio |-> Fin(r, MaxRatio), pos_angle |-> k, wavelength |-> wl] :
        uv \in UvArrays, r \in 1..MaxRatio, k \in 0..MaxQuarter,
        wl \in 1..MaxBlWl }

NoUtilOut == [op |-> "none"]

InitUtils ==
    /\ data = NoData
    /\ call = NoCall
    /\ wk = NoWorkers
    /\ readout = NoReadout
    /\ args \in NamespaceArgs \cup FixedParamArgs \cup BaselineArgs
    /\ out = NoUtilOut

\* ns = IterNamespace(**kwargs)
Construct ==
    /\ args.op = "IterNamespace"
    /\ out.op = "none"
    /\ out' = [op |-> "ns", ns |-> IterNamespace(args.kwargs),
               assigned |-> 0, item |-> NoItem]
    /\ UNCHANGED <<data, call, wk, readout, args>>

\* ns.attr = val
SetAttr(attr, val) ==
    /\ out.op = "ns"
    /\ out.assigned < MaxAssign
    /\ out' = [out EXCEPT !.ns = setattr(out.ns, attr, val),
                          !.assigned = out.assigned + 1]
    /\ UNCHANGED <<data, call, wk, readout, args>>

\* ns[index]
GetItem(index) ==
    /\ out.op = "ns"
    /\ out' = [out EXCEPT !.item = getitem(out.ns, index)]
    /\ UNCHANGED <<data, call, wk, readout, args>>

\* make_fixed_params(...) called with the seven arguments
MakeFixedParams ==
    /\ args.op = "make_fixed_params"
    /\ out.op = "none"
    /\ LET r == make_fixed_params(args.field_of_view, args.image_size,
                                  args.sublimation_temperature,
                                  args.effective_temperature, args.distance,
                                  args.luminosity_star, args.pixel_sampling)
       IN  out' = [op |-> "make_fixed_params", raised |-> r.raised,
                   ret |-> r.ret]
    /\ UNCHANGED <<data, call, wk, readout, args>>

\* calculate_effective_baselines(uv_coords, axis_ratio, pos_angle, wavelength)
CalculateEffectiveBaselines ==
    /\ args.op = "calculate_effective_baselines"
    /\ out.op = "none"
    /\ LET r == calculate_effective_baselines(args.uv_coords, args.axis_ratio,
                                              args.pos_angle, args.wavelength)
       IN  out' = [op |-> "calculate_effective_baselines",
                   raised |-> r.raised, error |-> r.error, unit |-> r.unit,
                   shape |-> r.shape, value |-> r.value]
    /\ UNCHANGED <<data, call, wk, readout, args>>

NextUtils ==
    \/ Construct
    \/ MakeFixedParams
    \/ CalculateEffectiveBaselines
    \/ \E attr \in LaterNames, val \in NsValues : SetAttr(attr, val)
    \/ \E index \in 0..MaxKw : GetItem(index)

SpecUtils == InitUtils /\ [][NextUtils]_vars

(***************************************************************************)
(* model_base.py: azimuthal_modulation                                     *)
(*                                                                         *)
(* The object is taken with its attributes image_size, pixel_sampling and  *)
(* mas_size set, as for set_grid, and the image has the shape of the grid. *)
(* Modulation angles are multiples of 90 degrees, so that the cosine of    *)
(* the difference to the angle of a direction (x1, x2) is an integer over  *)
(* sqrt(x1^2 + x2^2) and a pixel is a number rat + root / sqrt(rad).       *)
(***************************************************************************)
MaxImage == 2     \* pixel values are 0..MaxImage
MaxModAmp == 2    \* the modulation amplitude is 0..MaxModAmp
MaxModTurn == 3   \* modulation angles are 90*k degrees, k in 0..MaxModTurn

IsSquare(n) == \E k \in 0..n : k * k = n

Isqrt(n) == CHOOSE k \in 0..n : k * k = n

\* the number rat + root / sqrt(rad), rat and root fractions, rad a
\* positive integer; a rational number is kept with root 0 and rad 1
Surd(rat, root, rad) ==
    IF root.num = 0 THEN [rat |-> rat, root |-> Fin(0, 1), rad |-> 1]
    ELSE IF IsSquare(rad)
    THEN [rat |-> fadd(rat, fmul(root, Fin(1, Isqrt(rad)))),
          root |-> Fin(0, 1), rad |-> 1]
    ELSE [rat |-> rat, root |-> root, rad |-> rad]

\* the sign of rat + root / sqrt(rad): with terms of opposite signs, that
\* of rat^2 * rad - root^2 decides
SurdSign(v) ==
    LET d == v.rat.num * v.rat.num * v.rad * v.root.den * v.root.den
                - v.root.num * v.root.num * v.rat.den * v.rat.den
    IN  IF Sign(v.root) = 0 THEN Sign(v.rat)
        ELSE IF Sign(v.rat) = 0 \/ Sign(v.rat) = Sign(v.root)
        THEN Sign(v.root)
        ELSE IF d > 0 THEN Sign(v.rat)
        ELSE IF d < 0 THEN Sign(v.root)
        ELSE 0

\* (modulation_angle*u.deg).to(u.rad) for a multiple of 90 degrees, in
\* quarter turns
deg_to_quarters(modulation_angle) == modulation_angle \div 90

\* np.cos(polar_angle - modulation_angle) for the angle of the direction
\* (x1, x2), whose sine is x1/r and cosine x2/r, and a number of quarter
\* turns: the integer num over sqrt(rad)
cos_difference(polar_angle, quarters) ==
    [num |-> IF quarters % 4 = 0 THEN polar_angle.x2
             ELSE IF quarters % 4 = 1 THEN polar_angle.x1
             ELSE IF quarters % 4 = 2 THEN -polar_angle.x2
             ELSE -polar_angle.x1,
     rad |-> polar_angle.x1 * polar_angle.x1
                + polar_angle.x2 * polar_angle.x2]

\* image.value[image.value < 0.] = 0. left out
clamp_none(image) == image

\* image.value[image.value < 0.] = 0.
clamp_negative(image) ==
    [i \in 1..Len(image) |-> [j \in 1..Len(image[i]) |->
        IF SurdSign(image[i][j]) < 0
        THEN Surd(Fin(0, 1), Fin(0, 1), 1)
        ELSE image[i][j]]]

\* self.polar_angle = None of __init__ (line 33)
NoPolarAngle == <<>>

\* image *= other in place: other must broadcast to the shape of image
in_place_broadcast(image_shape, other_shape) ==
    \A axis \in 1..2 :
        other_shape[axis] = image_shape[axis] \/ other_shape[axis] = 1

\* azimuthal_modulation(image, modulation_angle, amplitude) on an image of
\* rational pixels and the polar angles self.polar_angle of the grid; the
\* image is the caller's array, changed in place and returned.  With
\* self.polar_angle still None the subtraction of line 186 raises
\* TypeError, and with polar angles that do not broadcast to the shape of
\* the image the in-place product of line 187 raises ValueError, both
\* before the image is touched.  1 + total_mod is exactly 0 only where the
\* cosine is -1 (amplitude 1), a value np.cos returns exactly.
azimuthal_modulation(self, image, modulation_angle, amplitude) ==
    IF self.polar_angle = NoPolarAngle
    THEN [raised |-> TRUE, error |-> "TypeError", image |-> image]
    ELSE IF ~in_place_broadcast(np_shape(image), np_shape(self.polar_angle))
    THEN [raised |-> TRUE, error |-> "ValueError", image |-> image]
    ELSE
    LET angle == deg_to_quarters(modulation_angle)
        rows == Len(self.polar_angle)
        columns == Len(self.polar_angle[1])
        cosine ==
            [i \in 1..Len(image) |-> [j \in 1..Len(image[i]) |->
                cos_difference(
                    self.polar_angle[IF rows = 1 THEN 1 ELSE i]
                                    [IF columns = 1 THEN 1 ELSE j],
                    angle)]]
        modulated ==
            [i \in 1..Len(image) |-> [j \in 1..Len(image[i]) |->
                Surd(image[i][j].rat,
                     fmul(image[i][j].rat,
                          Fin(amplitude * cosine[i][j].num, 1)),
                     cosine[i][j].rad)]]
    IN  [raised |-> FALSE, error |-> "", image |-> clamp_negative(modulated)]

\* an image of the shape of the grid, its pixel values in rotation
ModImage(pixel_sampling, x) ==
    [i \in 1..pixel_sampling |-> [j \in 1..pixel_sampling |->
        Surd(Fin((x + i + 2 * j) % (MaxImage + 1), 1), Fin(0, 1), 1)]]

\* a model right after __init__ and the arguments of a call; `given` keeps
\* the pixels the image had when it was passed
ModCall(image_size, pixel_sampling, mas_size, x, k, amplitude) ==
    [op |-> "azimuthal_modulation", image_size |-> image_size,
     pixel_sampling |-> pixel_sampling, mas_size |-> mas_size,
     polar_angle |-> NoPolarAngle,
     image |-> ModImage(pixel_sampling, x),
     given |-> ModImage(pixel_sampling, x),
     modulation_angle |-> 90 * k, amplitude |-> amplitude]

NoModOut == [op |-> "none", raised |-> FALSE, error |-> "", image |-> <<>>]

InitMod ==
    /\ data = NoData
    /\ call = NoCall
    /\ wk = NoWorkers
    /\ readout = NoReadout
    /\ \E n \in 1..MaxPix, s \in 1..MaxPix, f \in 1..MaxFov,
          x \in 0..MaxImage, k \in 0..MaxModTurn, a \in 0..MaxModAmp :
            args = ModCall(n, s, f, x, k, a)
    /\ out = NoModOut

\* set_grid() without inclination on the model: self.polar_angle =
\* np.arctan2(x, y) (line 241)
SetGridPolarAngle ==
    /\ args.op = "azimuthal_modulation"
    /\ out.op = "none"
    /\ args.polar_angle = NoPolarAngle
    /\ args' = [args EXCEPT !.polar_angle = set_grid(args, <<>>).polar_angle]
    /\ UNCHANGED <<data, call, wk, readout, out>>

\* azimuthal_modulation(image, modulation_angle, amplitude): the returned
\* array is the argument itself
AzimuthalModulation ==
    /\ args.op = "azimuthal_modulation"
    /\ out.op = "none"
    /\ LET ret == azimuthal_modulation(args, args.image,
                                       args.modulation_angle, args.amplitude)
       IN  /\ args' = [args EXCEPT !.image = ret.image]
           /\ out' = [op |-> "azimuthal_modulation",
                      raised |-> ret.raised, error |-> ret.error,
                      image |-> IF ret.raised THEN <<>> ELSE ret.image]
    /\ UNCHANGED <<data, call, wk, readout>>

NextMod ==
    \/ SetGridPolarAngle
    \/ AzimuthalModulation

SpecMod == InitMod /\ [][NextMod]_vars

(***************************************************************************)
(* model.py: Model.params and Model.free_params                            *)
(***************************************************************************)
MaxComps == 2        \* components of a model
MaxParamObj == 3     \* Parameter objects are 1..MaxParamObj
MaxParamValue == 1   \* parameter values are 0..MaxParamValue

ParamNames == <<"x", "pa">>
ShortNames == <<"ring", "inner ring", "star">>

\* shortname.replace(' ', '_')
replace_blank(shortname) ==
    IF shortname = "inner ring" THEN "inner_ring" ELSE shortname

\* f"c{index+1}_{component.shortname.replace(' ', '_')}_{name}" for the
\* 0-based index of enumerate
param_key(index, component, name) ==
    [c |-> index + 1, shortname |-> replace_blank(component.shortname),
     name |-> name]

\* a Parameter: the object it is (id) and its fields
Parameter(id, name, value, free) ==
    [id |-> id, name |-> name, value |-> value, free |-> free]

\* a == b of two Parameters: the objects themselves for a class without
\* __eq__, their fields for a dataclass
Parameter_eq(a, b, eq) ==
    IF eq = "fields"
    THEN a.name = b.name /\ a.value = b.value /\ a.free = b.free
    ELSE a.id = b.id

\* parameter in params.values(): some value is the parameter or equals it
in_values(parameter, params, eq) ==
    \E k \in 1..Len(params) :
        params[k].val.id = parameter.id
            \/ Parameter_eq(params[k].val, parameter, eq)

\* the two loops of Model.params after the first n (component, name) pairs
\* in their order, each component holding Len(ParamNames) parameters
RECURSIVE params_loop(_, _, _)
params_loop(components, eq, n) ==
    IF n = 0 THEN <<>>
    ELSE LET params    == params_loop(components, eq, n - 1)
             index     == (n - 1) \div Len(ParamNames)
             component == components[index + 1]
             pair      == component.params[((n - 1) % Len(ParamNames)) + 1]
         IN  IF ~in_values(pair.val, params, eq)
             THEN Append(params,
                         [attr |-> param_key(index, component, pair.attr),
                          val |-> pair.val])
             ELSE params

\* Model.params of a model with these components
model_params(components, eq) ==
    params_loop(components, eq, Len(components) * Len(ParamNames))

\* Model.free_params
free_params(components, eq) ==
    SelectSeq(model_params(components, eq), LAMBDA p : p.val.free)

\* the Parameter object id: an object has one name, whatever the keys it
\* is held under; its value is (x + s * id) modulo MaxParamValue + 1, and
\* it is free when id + f is even
ParameterObject(id, x, s, f) ==
    Parameter(id, ParamNames[((id - 1) % Len(ParamNames)) + 1],
              (x + s * id) % (MaxParamValue + 1), (id + f) % 2 = 0)

\* the component of 1-based place c holding the Parameter objects ids[1],
\* ids[2] under the keys of ParamNames
ComponentOf(c, ids, x, s, f) ==
    [shortname |-> ShortNames[((c - 1) % Len(ShortNames)) + 1],
     params |-> [j \in 1..Len(ParamNames) |->
                   [attr |-> ParamNames[j],
                    val |-> ParameterObject(ids[j], x, s, f)]]]

ParamsArgs ==
    { [op |-> "params", eq |-> eq,
       components |-> [c \in 1..Len(idss) |-> ComponentOf(c, idss[c], x, s, f)]] :
        idss \in SeqsUpTo(MaxComps, [1..Len(ParamNames) -> 1..MaxParamObj]),
        x \in 0..MaxParamValue, s \in 0..1, f \in 0..1,
        eq \in {"is", "fields"} }

NoParamsOut == [op |-> "none", params |-> <<>>, free_params |-> <<>>]

InitParams ==
    /\ data = NoData
    /\ call = NoCall
    /\ wk = NoWorkers
    /\ readout = NoReadout
    /\ args \in ParamsArgs
    /\ out = NoParamsOut

\* model.params and model.free_params are read
GetParams ==
    /\ args.op = "params"
    /\ out.op = "none"
    /\ out' = [op |-> "params",
               params |-> model_params(args.components, args.eq),
               free_params |-> free_params(args.components, args.eq)]
    /\ UNCHANGED <<data, call, wk, readout, args>>

NextParams == GetParams

SpecParams == InitParams /\ [][NextParams]_vars

(***************************************************************************)
(* Properties                                                              *)
(***************************************************************************)
Outside(theta, priors) ==
    \E i \in 1..Len(theta) :
        theta[i] < priors[i][1] \/ theta[i] > priors[i][2]

InClosed(theta, priors) ==
    \A i \in 1..Len(theta) :
        priors[i][1] <= theta[i] /\ theta[i] <= priors[i][2]

\* C1: lnprob returns -infinity whenever at least one entry of theta lies
\* strictly outside its prior interval [lower, upper].
C1_PriorRejection ==
    (call.op = "lnprob" /\ Outside(call.theta, data.priors))
        => call.ret = NegInf

\* a call was rejected whose only offending entry is above its upper bound
C1_Witness ==
    /\ call.op = "lnprob"
    /\ \E i \in 1..Len(call.theta) :
          /\ call.theta[i] > data.priors[i][2]
          /\ \A j \in 1..Len(call.theta) :
                j # i => (data.priors[j][1] < call.theta[j]
                          /\ call.theta[j] < data.priors[j][2])
    /\ call.ret = NegInf

\* C2: when every entry of theta lies in its closed prior interval, bounds
\* included, lnprior returns 0.0 and lnprob returns the finite lnlike value.
C2_ClosedIntervalAccepted ==
    (call.op = "lnprob" /\ InClosed(call.theta, data.priors))
        => /\ lnprior(call.theta, data.priors) = Zero
           /\ isfinite(call.ret)
           /\ call.ret = lnlike(call.theta, data)

\* -0.5 * SUM_i [ (obs_i - model_i)^2 / s_i + ln(s_i) ] with the variance
\* s_i = err_i^2 + model_i^2 * exp(2*lnf) of measurement i
RECURSIVE PerMeasurementChiSq(_, _, _, _, _)
PerMeasurementChiSq(obs, err, model, lnf, n) ==
    IF n = 0 THEN Zero
    ELSE LET s == err[n] * err[n] + model[n] * model[n] * Exp2(lnf)
             r == (obs[n] - model[n]) * (obs[n] - model[n])
         IN  Add(PerMeasurementChiSq(obs, err, model, lnf, n - 1),
                 MkVal(r, s, 1, s))

\* C3: the chi-square term of a data type is -0.5 * SUM_i [ (obs_i -
\* model_i)^2 / s_i + ln(s_i) ], each measurement with its own variance
\* s_i = err_i^2 + model_i^2 * exp(2*lnf), lnf the last entry of theta.
C3_PerMeasurementVariance ==
    call.evaluated =>
        call.terms.cf =
            PerMeasurementChiSq(ravel(data.corr_fluxes),
                                ravel(data.corr_fluxes_error),
                                ravel(call.mod.corr),
                                call.theta[Len(call.theta)],
                                Len(ravel(data.corr_fluxes)))

\* the bundles that differ from d in the observations and errors of the
\* data types d does not fit
DisabledVariants(d) ==
    { [d EXCEPT !.total_fluxes = IF d.fit_total_flux THEN @ ELSE o,
                !.total_fluxes_error = IF d.fit_total_flux THEN @ ELSE e] :
        o \in ObsArrays(NReadouts) \cup FlatObs(NReadouts),
        e \in ErrArrays(NReadouts) }
    \cup
    { [d EXCEPT !.cphases = IF d.fit_cphases THEN @ ELSE o,
                !.cphases_error = IF d.fit_cphases THEN @ ELSE e] :
        o \in ObsArrays(NCph * NReadouts) \cup FlatObs(NCph * NReadouts),
        e \in ErrArrays(NCph * NReadouts) }

\* C4: lnlike is the sum of the chi-square terms of the enabled data types
\* (correlated flux always, total flux iff fit_total_flux, closure phases
\* iff fit_cphases); a disabled type contributes 0, so the result does not
\* depend on its observed values or errors.
C4_EnabledTermsOnly ==
    call.evaluated =>
        LET lnf == call.theta[Len(call.theta)]
            tf == chi_sq(data.total_fluxes, data.total_fluxes_error,
                         call.mod.total, lnf)
            cf == chi_sq(data.corr_fluxes, data.corr_fluxes_error,
                         call.mod.corr, lnf)
            cp == chi_sq(data.cphases, data.cphases_error, call.mod.cph, lnf)
        IN  /\ call.ret = Add(Add(IF data.fit_total_flux THEN tf ELSE Zero, cf),
                              IF data.fit_cphases THEN cp ELSE Zero)
            /\ \A d \in DisabledVariants(data) :
                  lnlike(call.theta, d) = call.ret

\* a likelihood was computed with the total flux disabled, the closure
\* phases enabled, and a total-flux term that would not have been 0
C4_Witness ==
    /\ call.evaluated
    /\ ~data.fit_total_flux
    /\ data.fit_cphases
    /\ isfinite(call.ret)
    /\ chi_sq(data.total_fluxes, data.total_fluxes_error, call.mod.total,
              call.theta[Len(call.theta)]) # Zero
    /\ call.terms.cp # Zero

\* C5: a likelihood evaluation leaves every field of the data object as it
\* was before the call.
C5_BundleUnchanged == [][data' = data]_vars

\* C6: each of several concurrent evaluations on the same data object
\* returns the value it returns when run alone on it.
C6_ConcurrentEqualsAlone ==
    \A w \in 1..NWorkers :
        wk[w].pc = "done" => wk[w].ret = lnprob(wk[w].theta, data)

\* C7: for every triangle the third leg is (u1+u2, v1+v2), not the negated
\* sum, and the legs come in the order [leg 1, leg 2, leg 3] for u and v.
C7_ThirdLegIsSum ==
    /\ out.op = "get_closures_phase_uvcoords_split" =>
          /\ out.u[1] = readout.u1coord /\ out.u[2] = readout.u2coord
          /\ out.v[1] = readout.v1coord /\ out.v[2] = readout.v2coord
          /\ Len(out.u) = 3 /\ Len(out.v) = 3
          /\ \A t \in 1..NTri :
                /\ out.u[3][t] = readout.u1coord[t] + readout.u2coord[t]
                /\ out.v[3][t] = readout.v1coord[t] + readout.v2coord[t]
    /\ out.op = "get_closures_phase_uvcoords" =>
          \A t \in 1..NTri :
              /\ out.uv[1][t] = <<readout.u1coord[t], readout.v1coord[t]>>
              /\ out.uv[2][t] = <<readout.u2coord[t], readout.v2coord[t]>>
              /\ out.uv[3][t] = <<readout.u1coord[t] + readout.u2coord[t],
                                  readout.v1coord[t] + readout.v2coord[t]>>

\* the legs of a triangle whose third leg is not 0 in u nor in v were read
C7_Witness ==
    /\ out.op = "get_closures_phase_uvcoords_split"
    /\ \E t \in 1..NTri :
          /\ readout.u1coord[t] + readout.u2coord[t] # 0
          /\ readout.v1coord[t] + readout.v2coord[t] # 0
          /\ readout.u1coord[t] # readout.u2coord[t]
          /\ out.u[3][t] = readout.u1coord[t] + readout.u2coord[t]

\* l lists the members of the set S of indices in ascending order
ListsAscending(l, S) ==
    /\ { l[j] : j \in 1..Len(l) } = S
    /\ \A j \in 1..(Len(l) - 1) : l[j] < l[j + 1]

Target(k) == At(args.wavelengths, k)
Width(k) == At(args.sizes, k)
Answered == out.op = "get_wavelength_indices" /\ ~out.raised

\* C8 as stated: the indices returned are exactly those of the wavelengths
\* with target - width/2 <= wavelength <= target + width/2, ascending.
C8_ClosedWindow ==
    Answered =>
        \A k \in 1..Len(out.indices) :
            ListsAscending(out.indices[k],
                { i \in 0..(NSol - 1) :
                    /\ 2 * Target(k) - Width(k)
                          <= 2 * readout.wavelength_solution[i + 1]
                    /\ 2 * readout.wavelength_solution[i + 1]
                          <= 2 * Target(k) + Width(k) })

\* C8 amended: the indices returned are exactly those of the wavelengths
\* with target - width/2 < wavelength < target + width/2 (both window ends
\* excluded), in ascending index order.
C8_OpenWindow ==
    Answered =>
        \A k \in 1..Len(out.indices) :
            ListsAscending(out.indices[k],
                { i \in 0..(NSol - 1) :
                    /\ 2 * Target(k) - Width(k)
                          < 2 * readout.wavelength_solution[i + 1]
                    /\ 2 * readout.wavelength_solution[i + 1]
                          < 2 * Target(k) + Width(k) })

\* a window was answered with some index while a wavelength of the solution
\* lies exactly on one of its ends
C8_Witness ==
    /\ Answered
    /\ \E k \in 1..Len(out.indices) :
          /\ Len(out.indices[k]) >= 1
          /\ \E i \in 1..NSol :
                \/ 2 * readout.wavelength_solution[i] = 2 * Target(k) - Width(k)
                \/ 2 * readout.wavelength_solution[i] = 2 * Target(k) + Width(k)

\* C9: with a window width of 0 the index list is empty for every target
\* wavelength, whatever the wavelength solution.
C9_ZeroWidthEmpty ==
    Answered =>
        \A k \in 1..Len(out.indices) :
            Width(k) = 0 => out.indices[k] = <<>>

\* a zero-width window was asked around a wavelength of the solution
C9_Witness ==
    /\ Answered
    /\ args.sizes = <<0>>
    /\ \E i \in 1..NSol : readout.wavelength_solution[i] = args.wavelengths[1]
    /\ Len(out.indices) = Len(args.wavelengths)
    /\ out.indices[1] = <<>>

\* C10: n target wavelengths with a single window width give exactly n
\* index lists, the k-th holding the indices selected by that width around
\* the k-th target.
C10_SingleWidthBroadcast ==
    (out.op = "get_wavelength_indices" /\ Len(args.sizes) = 1) =>
        /\ ~out.raised
        /\ Len(out.indices) = Len(args.wavelengths)
        /\ \A k \in 1..Len(args.wavelengths) :
              ListsAscending(out.indices[k],
                  { i \in 0..(NSol - 1) :
                      /\ 2 * args.wavelengths[k] - args.sizes[1]
                            < 2 * readout.wavelength_solution[i + 1]
                      /\ 2 * readout.wavelength_solution[i + 1]
                            < 2 * args.wavelengths[k] + args.sizes[1] })

\* several targets were asked with one width and got different index lists
C10_Witness ==
    /\ out.op = "get_wavelength_indices"
    /\ Len(args.sizes) = 1
    /\ Len(args.wavelengths) = MaxTargets
    /\ Len(out.indices) = MaxTargets
    /\ out.indices[1] # out.indices[MaxTargets]
    /\ out.indices[1] # <<>>

\* C11: for all positive T, d and L, the inner temperature computed from the
\* inner radius that _calculate_inner_radius gives for T is T again.
C11_RoundTrip ==
    out.op = "_calculate_inner_temperature" =>
        out.inner_temperature = Quantity(args.T)

\* a round trip ended, on a temperature, a distance and a luminosity that all
\* differ from 1, through an inner radius that is not the temperature
C11_Witness ==
    /\ out.op = "_calculate_inner_temperature"
    /\ args.T > 1 /\ args.d > 1 /\ args.L > 1
    /\ out.inner_radius # Quantity(args.T)
    /\ out.inner_temperature = Quantity(args.T)

\* C12: temperature_gradient and optical_depth_gradient return exactly 0 at
\* every grid point of radius 0, for every exponent, inner radius and inner
\* temperature or optical depth.
C12_ZeroAtCentre ==
    /\ out.op \in {"temperature_gradient", "optical_depth_gradient",
                   "flux_per_pixel"} =>
          \A i \in 1..Len(args.radius) :
              args.radius[i] = 0 => out.temperature[i] = Fin(0, 1)
    /\ out.op \in {"optical_depth_gradient", "flux_per_pixel"} =>
          \A i \in 1..Len(args.radius) :
              args.radius[i] = 0 => out.optical_depth[i] = Fin(0, 1)

\* C13: the array flux_per_pixel returns has no NaN and no infinite entry.
C13_FluxFinite ==
    (out.op = "flux_per_pixel" /\ ~out.raised) =>
        \A i \in 1..Len(out.flux) : out.flux[i] \notin {"nan", "pinf", "ninf"}

\* astropy's UnitConversionError is a ValueError
IsValueError(e) == e \in {"ValueError", "UnitConversionError"}

\* C14: with inclination parameters [axis_ratio, position_angle], set_grid
\* raises ValueError on the axis-ratio test for every axis_ratio < 1 and does
\* not fail on that test for any axis_ratio >= 1, 1 included.
C14_AxisRatio ==
    (out.op = "set_grid" /\ Len(args.incline_params) = 2) =>
        /\ args.incline_params[1] < 2 =>
              (out.raised = "ValueError" /\ out.at = "axis_ratio")
        /\ args.incline_params[1] >= 2 => out.at # "axis_ratio"

\* set_grid was called with an axis ratio of exactly 1 and went past the
\* axis-ratio test
C14_Witness ==
    /\ out.op = "set_grid"
    /\ Len(args.incline_params) = 2
    /\ args.incline_params[1] = 2
    /\ out.at \in {"pos_angle", "rotation"}

\* C15: with inclination parameters of an accepted axis ratio, set_grid
\* builds the rotated grid for every position angle in [0, 180) degrees and
\* raises ValueError for every position angle outside.
C15_PositionAngle ==
    (/\ out.op = "set_grid"
     /\ Len(args.incline_params) = 2
     /\ args.incline_params[1] >= 2) =>
        IF 0 <= args.incline_params[2] /\ args.incline_params[2] < 180
        THEN out.raised = "none"
        ELSE IsValueError(out.raised)

Minus(v) == [v EXCEPT !.num = -v.num]

AxisValues == { out.x[k] : k \in 1..Len(out.x) }

GridBuilt ==
    /\ out.op = "set_grid"
    /\ out.raised = "none"
    /\ args.pixel_sampling = args.image_size

EvenlySpaced ==
    /\ Len(out.x) = args.image_size
    /\ \A k \in 1..(Len(out.x) - 1) :
          Fin(out.x[k + 1].num * out.x[k].den - out.x[k].num * out.x[k + 1].den,
              out.x[k + 1].den * out.x[k].den)
            = Fin(args.mas_size, args.image_size)

Centred ==
    /\ Fin(0, 1) \in AxisValues
    /\ out.x[1] = Fin(-args.mas_size, 2)
    /\ Fin(args.mas_size, 2) \notin AxisValues
    /\ \A v \in AxisValues : v # out.x[1] => Minus(v) \in AxisValues
    /\ \A k \in 1..Len(out.x) :
          out.x[k] = Fin(_make_axis(args.image_size \div 2, args.image_size)[k].num
                            * args.mas_size,
                         _make_axis(args.image_size \div 2, args.image_size)[k].den
                            * args.image_size)

\* C16 as stated: for every positive pixel count n (sampling n) the axis has
\* n samples with step field_of_view/n, starts at -(n/2) steps, leaves out
\* +(n/2) steps, mirrors every other sample and contains 0.
C16_CentredAxis ==
    GridBuilt => (EvenlySpaced /\ Centred)

\* C16: for every positive pixel count n (sampling n) the axis has n samples
\* with step field_of_view/n; for every even n it contains 0, starts at
\* -(n/2) steps, leaves out +(n/2) steps, mirrors every sample but the first
\* and is the scaled _make_axis(n/2, n).
C16_CentredAxisEven ==
    GridBuilt =>
        /\ EvenlySpaced
        /\ args.image_size % 2 = 0 => Centred

\* an axis of four samples, two of them negative, was built on a field of
\* view that the pixel count does not divide
C16_Witness ==
    /\ GridBuilt
    /\ args.image_size = 4
    /\ args.mas_size % 4 # 0
    /\ out.x[2].num < 0
    /\ out.x[3] = Fin(0, 1)

ImgDim ==
    IF args.binning = <<>> THEN args.dim
    ELSE get_binned_dimension(args.dim, args.binning[1])

\* C17: a Model without components gives an image of zeros, square, of the
\* requested dimension or of the binned dimension when the binning option is
\* set, and the complex visibility 0+0j.
C17_EmptyModel ==
    (out.op # "none" /\ args.components = <<>>) =>
        /\ out.op = "calculate_image" =>
              /\ Len(out.image) = ImgDim
              /\ \A i \in 1..ImgDim :
                    /\ Len(out.image[i]) = ImgDim
                    /\ \A j \in 1..ImgDim : out.image[i][j] = 0
        /\ out.op = "calculate_complex_visibility" => out.vis = <<0, 0>>

\* the image of an empty model was computed with a binning that shrinks it
C17_Witness ==
    /\ out.op = "calculate_image"
    /\ args.components = <<>>
    /\ args.binning # <<>>
    /\ Len(out.image) >= 1
    /\ Len(out.image) < args.dim

\* the sum of f over the set S, in no particular order
RECURSIVE SumOver(_, _)
SumOver(f, S) ==
    IF S = {} THEN 0
    ELSE LET x == CHOOSE y \in S : TRUE
         IN  f[x] + SumOver(f, S \ {x})

Orderings(n) == { p \in [1..n -> 1..n] : \A a, b \in 1..n : a # b => p[a] # p[b] }

Reordered(p) == [k \in 1..Len(args.components) |-> args.components[p[k]]]

\* C18: the image of a Model is the pixel-wise sum of the images of its
\* components and its visibility the sum of their visibilities, so its total
\* flux is the sum of their total fluxes, whatever the order of the
\* components: get_total_flux returns, and what it returns is the sum over
\* the components of the sums of their images.
C18_Superposition ==
    LET cs == args.components
        N  == Len(cs)
    IN  /\ out.op = "calculate_image" =>
              /\ \A i \in 1..ImgDim : \A j \in 1..ImgDim :
                    out.image[i][j]
                      = SumOver([k \in 1..N |->
                                    component_calculate_image(cs[k], ImgDim)[i][j]],
                                1..N)
              /\ SumSeq(ravel(out.image))
                    = SumOver([k \in 1..N |->
                                  SumSeq(ravel(
                                      component_calculate_image(cs[k], ImgDim)))],
                              1..N)
              /\ \A p \in Orderings(N) :
                    calculate_image(Reordered(p), args.dim, args.binning)
                      = out.image
        /\ out.op = "calculate_complex_visibility" =>
              /\ out.vis
                    = <<SumOver([k \in 1..N |-> cs[k].re], 1..N),
                        SumOver([k \in 1..N |-> cs[k].im], 1..N)>>
              /\ \A p \in Orderings(N) :
                    calculate_complex_visibility(Reordered(p)) = out.vis
        /\ out.op = "get_total_flux" =>
              /\ ~out.raised
              /\ out.total_flux
                    = SumOver([k \in 1..N |->
                                  SumSeq(ravel(
                                      component_calculate_image(cs[k], ImgDim)))],
                              1..N)

ProperPriors == \A i \in 1..Len(args.priors) : args.priors[i][1] < args.priors[i][2]

\* C19: make_inital_guess_from_priors returns one value per prior, in the
\* order of the priors; for a prior with lower < upper the value lies in
\* [lower + (upper-lower)/4, upper - (upper-lower)/4], so it is strictly
\* inside the bounds, and lnprior accepts a guess whose priors all have
\* lower < upper.
C19_CentralHalf ==
    /\ out.op \in {"make_inital_guess_from_priors", "lnprior"} =>
          /\ Len(out.params) = Len(args.priors)
          /\ \A i \in 1..Len(args.priors) :
                args.priors[i][1] < args.priors[i][2] =>
                    /\ 3 * args.priors[i][1] + args.priors[i][2] <= out.params[i]
                    /\ out.params[i] <= args.priors[i][1] + 3 * args.priors[i][2]
                    /\ 4 * args.priors[i][1] < out.params[i]
                    /\ out.params[i] < 4 * args.priors[i][2]
    /\ (out.op = "lnprior" /\ ProperPriors) => out.lnprior = Zero

\* a guess for several different priors, drawn at an end of the central half
\* of the first and inside that of the last, was accepted by lnprior
C19_Witness ==
    /\ out.op = "lnprior"
    /\ ProperPriors
    /\ Len(args.priors) = MaxPriors
    /\ args.priors[1] # args.priors[MaxPriors]
    /\ out.params[1] = 3 * args.priors[1][1] + args.priors[1][2]
    /\ out.params[MaxPriors] > 3 * args.priors[MaxPriors][1] + args.priors[MaxPriors][2]
    /\ out.lnprior = Zero

FluxMin == args.flux_file.wavelength[1]
FluxMax == args.flux_file.wavelength[Len(args.flux_file.wavelength)]
SolMin == readout.wavelength_solution[1]
SolMax == readout.wavelength_solution[NSol]

\* C20: _get_flux_file_data raises IOError when the wavelengths of the flux
\* file lie outside the range of the wavelength solution and does not raise
\* when they cover it; when it does not raise it returns one interpolated
\* flux per wavelength of the solution and an error array of the same shape.
C20_CoverageDecides ==
    out.op = "_get_flux_file_data" =>
        /\ (FluxMax < SolMin \/ SolMax < FluxMin) => out.raised
        /\ (FluxMin <= SolMin /\ SolMax <= FluxMax) => ~out.raised
        /\ ~out.raised =>
              /\ Len(out.flux) = 1 /\ Len(out.error) = 1
              /\ Len(out.flux[1]) = NSol /\ Len(out.error[1]) = NSol
              /\ \A k \in 1..NSol :
                    \A i \in 1..Len(args.flux_file.wavelength) :
                        args.flux_file.wavelength[i] = readout.wavelength_solution[k]
                            => out.flux[1][k] = Fin(args.flux_file.flux[i], 1)

StrictlyInside(theta, priors) ==
    \A i \in 1..Len(priors) :
        priors[i][1] < theta[i] /\ theta[i] < priors[i][2]

\* C23: in lnprob the prior check comes before any model work: a call whose
\* theta is rejected by the prior check ends without calculate_model having
\* run any of its steps for it, and a call that is inside calculate_model
\* has a theta that passed the prior check.
C23_PriorBeforeModel ==
    \A w \in 1..NWorkers :
        /\ wk[w].pc \in {"reformat", "build", "score"}
              => StrictlyInside(wk[w].theta, data.priors)
        /\ wk[w].model # <<>> => StrictlyInside(wk[w].theta, data.priors)
        /\ (wk[w].pc # "idle" /\ ~StrictlyInside(wk[w].theta, data.priors))
              => /\ wk[w].pc = "done"
                 /\ wk[w].model = <<>>
                 /\ wk[w].ret = NegInf

\* one call was rejected without model work while another one, accepted,
\* is in the middle of calculate_model
C23_Witness ==
    \E v, w \in 1..NWorkers :
        /\ wk[v].pc = "done"
        /\ ~StrictlyInside(wk[v].theta, data.priors)
        /\ wk[v].model = <<>>
        /\ wk[w].pc = "score"
        /\ StrictlyInside(wk[w].theta, data.priors)

\* C27: calculate_model returns, for each of total flux, correlated flux and
\* closure phases, exactly one entry per wavelength of data.wavelengths, in
\* the order of data.wavelengths, and the same values with debug on and off:
\* every call returns its lists, entry i being what loop_model gives for
\* wavelength i, and the call with the other value of debug returns the same.
C27_OnePerWavelength ==
    out.op = "calculate_model" =>
        LET wl    == data.wavelengths
            model == CombinedModel(args.theta)
            other == calculate_model(args.theta, data, args.rfourier,
                                     ~args.debug)
            one(w) == loop_model(model, data, w, args.rfourier)
        IN  /\ ~out.raised
            /\ Len(out.total) = Len(wl)
            /\ Len(out.corr) = Len(wl)
            /\ Len(out.cph) = Len(wl)
            /\ \A i \in 1..Len(wl) :
                  /\ out.total[i] = one(wl[i]).total
                  /\ out.corr[i] = one(wl[i]).corr
                  /\ out.cph[i] = one(wl[i]).cph
            /\ ~other.raised
            /\ out.total = other.total
            /\ out.corr = other.corr
            /\ out.cph = other.cph

\* C21: get_visibilities returns the amplitude and its error with the same
\* unit: Jansky when the largest amplitude is >= 1, dimensionless when every
\* amplitude is < 1.
C21_UnitByAmplitude ==
    out.op = "get_visibilities" =>
        LET visamp == readout.oi_vis.visamp
            correlated == \E b \in 1..NBase : \E i \in 1..NVisWl :
                              visamp[b][i].num >= visamp[b][i].den
        IN  /\ out.ret[1].unit = out.ret[2].unit
            /\ correlated => out.ret[1].unit = "Jy"
            /\ ~correlated => out.ret[1].unit = "dimensionless"

\* C24: get_data_for_wavelength returns, for the values and for the errors,
\* one row per wavelength window and one column per baseline, entry [k][b]
\* being the mean of dataset[b][i] over the indices i of window k; both
\* arrays have the same shape and the unit of their input.
C24_WindowMeans ==
    out.op = "get_data_for_wavelength" =>
        LET wpi == args.wl_poly_indices
            vis == get_visibilities(readout)
        IN  /\ ~out.raised
            /\ \A s \in 1..2 :
                  /\ out.ret[s].ndim = 2
                  /\ out.ret[s].unit = vis[s].unit
                  /\ Len(out.ret[s].value) = Len(wpi)
                  /\ \A k \in 1..Len(wpi) :
                        /\ Len(out.ret[s].value[k]) = NBase
                        /\ \A b \in 1..NBase :
                              fmul(Fin(Len(wpi[k]), 1), out.ret[s].value[k][b])
                                = fsum([j \in 1..Len(wpi[k]) |->
                                          vis[s].value[b][wpi[k][j] + 1]],
                                       Len(wpi[k]))

EmptyWindows(wpi) == { k \in 1..Len(wpi) : wpi[k] = <<>> }

\* C24 (amended): when every window holds at least one wavelength index,
\* get_data_for_wavelength returns for the values and for the errors one
\* row per window and one column per baseline, entry [k][b] being the mean
\* of dataset[b][i] over the indices i of window k, with the unit of the
\* input; with an empty window among others the call fails, and with empty
\* windows only each result is a vector of one NaN per window without unit.
C24_WindowMeansNonEmpty ==
    out.op = "get_data_for_wavelength" =>
        LET wpi == args.wl_poly_indices
        IN  /\ EmptyWindows(wpi) = {} => C24_WindowMeans
            /\ (EmptyWindows(wpi) # {} /\ EmptyWindows(wpi) # 1..Len(wpi))
                  => out.raised
            /\ EmptyWindows(wpi) = 1..Len(wpi)
                  => /\ ~out.raised
                     /\ \A s \in 1..2 :
                           /\ out.ret[s].ndim = 1
                           /\ out.ret[s].unit = "dimensionless"
                           /\ out.ret[s].value = [k \in 1..Len(wpi) |-> NaN]

\* two windows were averaged, one of them over two wavelengths at which
\* the amplitudes of a baseline differ
C24_Witness ==
    /\ out.op = "get_data_for_wavelength"
    /\ ~out.raised
    /\ Len(args.wl_poly_indices) = 2
    /\ \E k \in 1..2 :
          /\ Len(args.wl_poly_indices[k]) = 2
          /\ readout.oi_vis.visamp[1][1] # readout.oi_vis.visamp[1][2]
          /\ out.ret[1].value[k][1] # readout.oi_vis.visamp[1][1]
          /\ out.ret[1].value[k][1] # readout.oi_vis.visamp[1][2]

\* C29: for an IterNamespace, len(ns), the number of values of an iteration
\* over ns and the number of entries of ns.to_string_dict() are equal, right
\* after the construction and after any later attribute assignments.
C29_CountsAgree ==
    out.op = "ns" =>
        /\ len(out.ns) = Len(iter(out.ns))
        /\ len(out.ns) = Len(to_string_dict(out.ns))

\* the value of the field of index i (0-based) in construction order
FieldValue(ns, i) ==
    LET at == CHOOSE k \in 1..Len(ns.dict) : ns.dict[k].attr = ns.fields[i + 1]
    IN  ns.dict[at].val

\* C30: for every integer index i with 0 <= i < len(ns), ns[i] returns the
\* value of the i-th field in construction order, which is the i-th value
\* of an iteration over ns, whatever its type, lists included.
C30_IndexGivesField ==
    (out.op = "ns" /\ out.item.index >= 0 /\ out.item.index < len(out.ns)
        /\ out.item = getitem(out.ns, out.item.index))
        => /\ ~out.item.raised
           /\ out.item.kind = "value"
           /\ out.item.value = FieldValue(out.ns, out.item.index)
           /\ out.item.value = iter(out.ns)[out.item.index + 1]

\* the arguments of the make_fixed_params call, in the order of its keys
FixedGiven ==
    <<args.field_of_view, args.image_size, args.sublimation_temperature,
      args.effective_temperature, args.distance, args.luminosity_star,
      args.pixel_sampling>>

\* what a field given as a number or as None becomes when it is tagged with
\* the unit expected for it
Tagged(i) ==
    IF FixedGiven[i].kind = "None"
    THEN IF FixedGiven[2].kind = "Quantity" THEN FixedGiven[2]
         ELSE Qty(FixedGiven[2].value, FixedUnits[2])
    ELSE Qty(FixedGiven[i].value, FixedUnits[i])

SomeWrongUnit ==
    \E i \in 1..7 : /\ FixedGiven[i].kind = "Quantity"
                    /\ FixedGiven[i].unit # FixedUnits[i]

\* C22: make_fixed_params never coerces units: a Quantity whose unit differs
\* from the one expected for its field makes the call fail and return no
\* parameter set, and a value given without a unit is tagged with the unit
\* expected for its field (pixel_sampling taking image_size when None).
C22_TaggedOrRejected ==
    out.op = "make_fixed_params" =>
        /\ SomeWrongUnit => (out.raised /\ len(out.ret) = 0)
        /\ ~SomeWrongUnit =>
              /\ ~out.raised
              /\ out.ret.fields = FixedKeys
              /\ \A i \in 1..7 :
                    item(out.ret.dict, FixedKeys[i]) =
                        IF FixedGiven[i].kind = "Quantity" THEN FixedGiven[i]
                        ELSE Tagged(i)

\* C22 (amended): as C22, except that a luminosity given without a unit is
\* taken in solar luminosities and becomes that multiple of L_sun in watts.
C22_TaggedOrRejectedLsun ==
    out.op = "make_fixed_params" =>
        /\ SomeWrongUnit => (out.raised /\ len(out.ret) = 0)
        /\ ~SomeWrongUnit =>
              /\ ~out.raised
              /\ out.ret.fields = FixedKeys
              /\ \A i \in 1..7 :
                    item(out.ret.dict, FixedKeys[i]) =
                        IF FixedGiven[i].kind = "Quantity" THEN FixedGiven[i]
                        ELSE IF FixedKeys[i] = "lum_star"
                             THEN [Tagged(i) EXCEPT
                                     !.value = @ * L_sun_mantissa,
                                     !.exp10 = L_sun_exp10]
                        ELSE Tagged(i)

\* a call with a luminosity and a field of view without unit, a distance in
\* parsec and no pixel_sampling returned its parameter set
C22_Witness ==
    /\ out.op = "make_fixed_params"
    /\ ~out.raised
    /\ args.luminosity_star.kind = "number"
    /\ args.field_of_view.kind = "number"
    /\ args.distance.kind = "Quantity"
    /\ args.pixel_sampling.kind = "None"
    /\ item(out.ret.dict, "pixel_sampling") = item(out.ret.dict, "image_size")
    /\ item(out.ret.dict, "fov").unit = "mas"

\* C28: calculate_effective_baselines returns exactly N effective baselines
\* for a list of N (u, v) pairs (shape N x 2), N = 3 included, and 3 x T
\* values for an array of three triangle legs (shape 3 x T x 2).
C28_OnePerBaseline ==
    out.op = "calculate_effective_baselines" =>
        LET shape == args.uv_coords.shape
        IN  /\ ~out.raised
            /\ Len(shape) = 2 => size(out.shape) = shape[1]
            /\ Len(shape) = 3 => size(out.shape) = 3 * shape[2]
            /\ Len(out.value) = size(out.shape)

\* the direction (sine, cosine) of the modulation angle
ModulationDirection ==
    LET turn == (args.modulation_angle % 360) \div 90
    IN  <<<<0, 1>>, <<1, 0>>, <<0, -1>>, <<-1, 0>>>>[turn + 1]

\* amplitude * cos(polar_angle - modulation_angle) at pixel (i, j) is
\* AmpDot(i, j) / sqrt(Norm2(i, j)): the scalar product of the direction of
\* the polar angle with that of the modulation angle, over its length
AmpDot(i, j) ==
    args.amplitude
        * (args.polar_angle[i][j].x1 * ModulationDirection[1]
            + args.polar_angle[i][j].x2 * ModulationDirection[2])

Norm2(i, j) ==
    args.polar_angle[i][j].x1 * args.polar_angle[i][j].x1
        + args.polar_angle[i][j].x2 * args.polar_angle[i][j].x2

\* 1 + amplitude * cos(polar_angle - modulation_angle) < 0 at pixel (i, j)
FactorNegative(i, j) ==
    AmpDot(i, j) < 0 /\ AmpDot(i, j) * AmpDot(i, j) > Norm2(i, j)

\* C25: after azimuthal_modulation(image, modulation_angle, amplitude) on a
\* model with the polar angles set_grid gives it, every pixel of the
\* returned image is >= 0 and equals
\* max(0, image * (1 + amplitude * cos(polar_angle - modulation_angle))),
\* for any amplitude, amplitudes > 1 included, and any image >= 0.  The
\* returned image is the argument itself; without the polar angles of
\* set_grid there is nothing to modulate with and the call raises.
C25_ClampedModulation ==
    out.op = "azimuthal_modulation" =>
        /\ out.raised <=> args.polar_angle = NoPolarAngle
        /\ ~out.raised =>
              /\ out.image = args.image
              /\ np_shape(out.image) = np_shape(args.polar_angle)
              /\ \A i \in 1..Len(out.image) : \A j \in 1..Len(out.image[i]) :
                    LET g == args.given[i][j].rat
                    IN  /\ SurdSign(out.image[i][j]) >= 0
                        /\ out.image[i][j] =
                              IF FactorNegative(i, j)
                              THEN Surd(Fin(0, 1), Fin(0, 1), 1)
                              ELSE Surd(g, Fin(g.num * AmpDot(i, j), g.den),
                                        Norm2(i, j))

\* on a grid of several pixels an amplitude above 1 turned a lit pixel
\* opposite to the modulation angle to zero and brightened another pixel
C25_Witness ==
    /\ out.op = "azimuthal_modulation"
    /\ ~out.raised
    /\ args.amplitude > 1
    /\ Len(out.image) > 1
    /\ \E i, j, k, l \in 1..Len(out.image) :
          /\ args.given[i][j].rat.num > 0
          /\ FactorNegative(i, j)
          /\ out.image[i][j] = Surd(Fin(0, 1), Fin(0, 1), 1)
          /\ args.given[k][l].rat.num > 0
          /\ AmpDot(k, l) > 0
          /\ out.image[k][l].rad > 1
          /\ Sign(out.image[k][l].root) > 0
          /\ out.image[k][l].rat = args.given[k][l].rat

\* the places <<component, name>> at which the Parameter object id is held
Holders(id) ==
    { cj \in (1..Len(args.components)) \X (1..Len(ParamNames)) :
        args.components[cj[1]].params[cj[2]].val.id = id }

FirstHolder(id) ==
    CHOOSE cj \in Holders(id) :
        \A other \in Holders(id) :
            cj[1] < other[1] \/ (cj[1] = other[1] /\ cj[2] <= other[2])

\* C26: Model.params holds every distinct Parameter of every component
\* exactly once: an object held by several components is listed once, under
\* the key c{index}_{shortname}_{name} of the first component holding it,
\* and no parameter that is a different object from all those listed is
\* left out.
C26_EveryParameterOnce ==
    out.op = "params" =>
        \A id \in 1..MaxParamObj :
            Holders(id) # {} =>
                LET first  == FirstHolder(id)
                    listed == { k \in 1..Len(out.params) :
                                  out.params[k].val.id = id }
                IN  /\ Cardinality(listed) = 1
                    /\ \A k \in listed :
                          out.params[k].attr =
                              [c |-> first[1],
                               shortname |-> replace_blank(
                                   args.components[first[1]].shortname),
                               name |-> ParamNames[first[2]]]

====
